---------------------------- MODULE Spec2Model ----------------------------
(***************************************************************************)
(* A model of godu: root-scoped deletion (internal/ops/delete.go), the     *)
(* atomic export (ops.ExportJSON), the export/import round trip and the    *)
(* parallel directory walker (internal/scanner/parallel.go).               *)
(*                                                                         *)
(* Paths are sequences of path components; the empty sequence is "/".      *)
(***************************************************************************)
EXTENDS Integers, Sequences, FiniteSets, TLC

VARIABLES
    fs,        \* deletion: the filesystem, path -> [kind, target]
    delLast,   \* deletion: the last Delete call [called, path, root, ok, before]
    expPc,     \* export: the statement ExportJSON is at
    expGoos,   \* export: runtime.GOOS
    expDest,   \* export: the file at the destination path [kind, bytes]
    expDest0,  \* export: the file at the destination path when ExportJSON began
    expTmp,    \* export: the temp file [exists, open, bytes]
    expBuf,    \* export: bytes held by the bufio.Writer
    expPos,    \* export: units of the document handed to the errWriter so far
    expErr,    \* export: ew.err, then retErr
    expRet,    \* export: what ExportJSON returned: "none", "ok" or "err"
    scOpts,    \* scan: [scn, follow, hidden, conc, progress, pre]: fixture and ScanOptions
    ctx,       \* scan: TRUE once the context is cancelled
    scPc,      \* scan: the statement Scan is at
    scRet,     \* scan: what Scan returned: "none", "ok" or "canceled"
    nodes,     \* scan: the tree, node id -> node; a node id is the entry indices from the root
    tasks,     \* scan: goroutine -> [stack of scanDir frames, st]
    sem,       \* scan: occupied slots of the semaphore channel
    wg,        \* scan: the WaitGroup counter
    visitedDirs, \* scan: canonical directory paths claimed
    inodeMap,  \* scan: inode keys seen
    cnt,       \* scan: [files, dirs, bytes, errs] atomic counters
    aggTodo,   \* scan: directories UpdateSizeRecursiveContext has still to visit, post-order
    opens,     \* scan: <<directory path, node>> of every directory opened
    pub,       \* scan: the progress goroutine: "none", "running" or "stopped"
    progressDone, \* scan: TRUE once close(progressDone) ran
    emitted,   \* scan: the Progress records sent on the channel, in order
    chanLen,   \* scan: records waiting in the caller's channel
    chanClosed, \* scan: TRUE once the caller closed its channel
    impLevels, \* import: directory arrays nested in the document, the root's included
    impLeaf,   \* import: what the innermost directory holds: "file", "dotdot", "none"
    impPc,     \* import: the statement ImportJSON and parseDirFromDecoder are at
    impDepth,  \* import: depth of the innermost parseDirFromDecoder call
    impBuilt,  \* import: DirNodes made so far
    impRet,    \* import: what ImportJSON returned: "none", "ok", "depth", "format"
    decFile,   \* import: the file given to ImportJSON, [doc, trailing]
    decOut,    \* import: what ImportJSON returned for decFile: [ok, ns, err, index]
    uiState,   \* ui: "idle", "browsing", "confirm", "deleting" or "done"
    uiTree,    \* ui: the tree a.root, node id -> node
    currentDir, \* ui: the directory shown
    markedItems, \* ui: the ConfirmItems still to delete, [name, path]
    rmLast,    \* ui: the last step on the tree [called, dir, name, ok, found, before]
    deleteDone, \* ui: DeleteDoneMsg so far, [deleted, errors]
    addMu,     \* tree: the goroutine holding d.mu of the shared directory, or NoHolder
    addTasks,  \* tree: goroutine -> [todo, pc, local]: children still to append
    estArgs,   \* remote: the file size and the StatVFS answer given to the estimate
    estRet,    \* remote: [called, blockSize, usage] of the estimate
    rmFs,      \* removal: the filesystem by directory: directory -> its entries, in order
    rmStack,   \* removal: the deleteAt calls in progress, innermost first
    rmLog,     \* removal: the entries unlinked so far, <<directory, name, kind>>
    rmRet,     \* removal: [st, errno, at]: what deleteResolvedPath returned and where it failed
    rmSwaps,   \* removal: directories the concurrent actor has replaced with symlinks
    panicked   \* scan: TRUE once a send hit the closed channel

uiVars == <<uiState, uiTree, currentDir, markedItems, rmLast, deleteDone>>

rmVars == <<rmFs, rmStack, rmLog, rmRet, rmSwaps>>

auxVars == <<addMu, addTasks, estArgs, estRet, rmVars>>

delVars == <<fs, delLast, uiVars, auxVars>>

expVars == <<expPc, expGoos, expDest, expDest0, expTmp, expBuf, expPos, expErr, expRet>>

scanVars == <<scOpts, ctx, scPc, scRet, nodes, tasks, sem, wg, visitedDirs, inodeMap, cnt,
              aggTodo, opens, pub, progressDone, emitted, chanLen, chanClosed, panicked>>

decVars == <<decFile, decOut>>

impVars == <<impLevels, impLeaf, impPc, impDepth, impBuilt, impRet, decVars>>

vars == <<delVars, expVars, scanVars, impVars>>

-----------------------------------------------------------------------------
(***************************************************************************)
(* Path helpers (path/filepath) on component sequences.                    *)
(***************************************************************************)

\* Bound on nested symlink resolution while evaluating a path.
MaxLinkDepth == 3

IsPrefix(a, b) == Len(a) <= Len(b) /\ SubSeq(b, 1, Len(a)) = a

IsStrictPrefix(a, b) == Len(a) < Len(b) /\ SubSeq(b, 1, Len(a)) = a

\* filepath.Clean of an absolute path: ".." removes the component before it
\* and is dropped at the root.
RECURSIVE CleanFrom(_, _)
CleanFrom(done, rest) ==
    IF rest = <<>> THEN done
    ELSE IF Head(rest) \in {"", "."} THEN CleanFrom(done, Tail(rest))
    ELSE IF Head(rest) = ".."
         THEN CleanFrom(IF done = <<>> THEN <<>> ELSE SubSeq(done, 1, Len(done) - 1),
                        Tail(rest))
         ELSE CleanFrom(Append(done, Head(rest)), Tail(rest))

\* filepath.Abs of an absolute path is its Clean.
Abs(p) == CleanFrom(<<>>, p)

\* filepath.Dir and filepath.Base of a clean absolute path.
Dir(p) == IF p = <<>> THEN <<>> ELSE SubSeq(p, 1, Len(p) - 1)

Base(p) == IF p = <<>> THEN <<>> ELSE <<p[Len(p)]>>

\* filepath.Join: Clean of the elements joined by separators.
Join(a, b) == CleanFrom(<<>>, a \o b)

RECURSIVE CommonLen(_, _)
CommonLen(a, b) ==
    IF a = <<>> \/ b = <<>> \/ Head(a) # Head(b) THEN 0
    ELSE 1 + CommonLen(Tail(a), Tail(b))

\* filepath.Rel(base, targ) of two clean absolute paths: "." when equal,
\* otherwise one ".." per remaining component of base, then the rest of targ.
Rel(base, targ) ==
    LET n == CommonLen(base, targ)
        ups == [i \in 1..(Len(base) - n) |-> ".."]
    IN  IF base = targ THEN <<".">>
        ELSE ups \o SubSeq(targ, n + 1, Len(targ))

-----------------------------------------------------------------------------
(***************************************************************************)
(* The filesystem the deletion runs on.                                    *)
(***************************************************************************)

NoEntry == [kind |-> "none", target |-> <<>>]
DirEntry == [kind |-> "dir", target |-> <<>>]
FileEntry == [kind |-> "file", target |-> <<>>]
LinkEntry(t) == [kind |-> "link", target |-> t]

\* /R is the scan root and /L a symlink to it; /O lies outside the root.
\* /R/esc is a symlinked directory leaving the root, /R/lk a symlink to a
\* file outside, /R/br a broken symlink, /R/in a symlink to a directory
\* inside the root, /R/..foo a file whose name merely starts with "..".
InitialFS ==
    (<<>> :> DirEntry) @@
    (<<"R">> :> DirEntry) @@
    (<<"R", "f">> :> FileEntry) @@
    (<<"R", "..foo">> :> FileEntry) @@
    (<<"R", "d">> :> DirEntry) @@
    (<<"R", "d", "g">> :> FileEntry) @@
    (<<"R", "d", "lo">> :> LinkEntry(<<"O">>)) @@
    (<<"R", "esc">> :> LinkEntry(<<"O">>)) @@
    (<<"R", "lk">> :> LinkEntry(<<"O", "s">>)) @@
    (<<"R", "br">> :> LinkEntry(<<"nx">>)) @@
    (<<"R", "in">> :> LinkEntry(<<"R", "d">>)) @@
    (<<"O">> :> DirEntry) @@
    (<<"O", "s">> :> FileEntry) @@
    (<<"L">> :> LinkEntry(<<"R">>))

Exists(f, p) == p \in DOMAIN f /\ f[p].kind # "none"

EvalErr == [ok |-> FALSE, path |-> <<>>]

\* filepath.EvalSymlinks: walk the components from the root, replacing every
\* symlink by its resolved target; a missing component is an error.
RECURSIVE EvalFrom(_, _, _, _)
EvalFrom(f, cur, rest, fuel) ==
    IF rest = <<>> THEN [ok |-> TRUE, path |-> cur]
    ELSE LET nxt == Append(cur, Head(rest)) IN
         IF ~Exists(f, nxt) THEN EvalErr
         ELSE IF f[nxt].kind = "link"
              THEN IF fuel = 0 THEN EvalErr
                   ELSE LET t == EvalFrom(f, <<>>, f[nxt].target, fuel - 1) IN
                        IF ~t.ok THEN EvalErr
                        ELSE EvalFrom(f, t.path, Tail(rest), fuel)
              ELSE IF f[nxt].kind = "file" /\ Tail(rest) # <<>> THEN EvalErr
              ELSE EvalFrom(f, nxt, Tail(rest), fuel)

EvalSymlinks(f, p) == EvalFrom(f, <<>>, p, MaxLinkDepth)

-----------------------------------------------------------------------------
(***************************************************************************)
(* ops.Delete(path, rootPath).                                             *)
(***************************************************************************)

\* A mutant that takes the parent lexically.
RealParentLexical(f, absPath) == [ok |-> TRUE, path |-> Dir(absPath)]

\* The symlinks of the parent directory are resolved; the final component
\* stays lexical.
RealParent(f, absPath) == EvalSymlinks(f, Dir(absPath))

\* A mutant that resolves the final component as well.
RealPathResolved(f, absPath) ==
    LET r == EvalSymlinks(f, absPath) IN
    IF r.ok THEN r.path ELSE Join(EvalSymlinks(f, Dir(absPath)).path, Base(absPath))

RealPath(f, absPath) == Join(RealParent(f, absPath).path, Base(absPath))

\* rel == "." || rel == ".." || strings.HasPrefix(rel, "../")
OutsideRoot(rel) ==
    rel = <<".">> \/ rel = <<"..">> \/ (Len(rel) > 1 /\ rel[1] = "..")

\* Where the kernel finds the entry a path names without following its final
\* component: the symlinks of the parent are followed.
Locate(f, p) ==
    LET par == EvalSymlinks(f, Dir(p)) IN
    IF p = <<>> THEN [ok |-> TRUE, path |-> <<>>]
    ELSE IF ~par.ok \/ f[par.path].kind # "dir" THEN EvalErr
    ELSE [ok |-> TRUE, path |-> Join(par.path, Base(p))]

\* os.Lstat: the entry itself, a symlink as a symlink.
Lstat(f, p) ==
    LET at == Locate(f, p) IN
    IF at.ok /\ Exists(f, at.path) THEN f[at.path] ELSE NoEntry

\* os.RemoveAll: the entry and everything beneath it, symlinks as links.
RemoveAll(f, p) ==
    LET at == Locate(f, p).path IN
    [q \in DOMAIN f |-> IF IsPrefix(at, q) THEN NoEntry ELSE f[q]]

\* os.Remove: the one entry.
Remove(f, p) ==
    LET at == Locate(f, p).path IN
    [q \in DOMAIN f |-> IF q = at THEN NoEntry ELSE f[q]]

\* The outcome of Delete: whether it returned nil, and the filesystem after.
DeleteResult(f, path, rootPath) ==
    LET absPath == Abs(path)
        absRoot == Abs(rootPath)
        realParent == RealParent(f, absPath)
        realRoot == EvalSymlinks(f, absRoot)
        realPath == RealPath(f, absPath)
        info == Lstat(f, realPath)
        failed == [ok |-> FALSE, fs |-> f]
    IN  IF ~realParent.ok THEN failed
        ELSE IF ~realRoot.ok THEN failed
        ELSE IF OutsideRoot(Rel(realRoot.path, realPath)) THEN failed
        ELSE IF info.kind = "none" THEN failed
        ELSE IF info.kind = "dir"
             THEN [ok |-> TRUE, fs |-> RemoveAll(f, realPath)]
             ELSE [ok |-> TRUE, fs |-> Remove(f, realPath)]

\* The paths handed to Delete: every entry of the filesystem, and paths that
\* leave the root through "..", through a symlinked directory or by naming a
\* sibling, the root itself or a missing entry.
DeleteInputs ==
    DOMAIN InitialFS \cup
    { <<"R", "..", "O", "s">>, <<"R", "..">>, <<"R", "d", "..", "f">>,
      <<"R", "esc", "s">>, <<"R", "d", "lo", "s">>, <<"R", "in", "g">>,
      <<"L", "f">>, <<"L", "d">>, <<"L", "lk">>, <<"L", "esc", "s">>,
      <<"R", "nx">>, <<"R", "f", "x">>, <<"R", "br", "x">>, <<"O", "..", "R", "f">> }

DeleteRoots == {<<"R">>, <<"L">>}

\* The zero value of d.mu: no goroutine holds it. Goroutines are 1, 2, ...
NoHolder == 0

\* No recursive removal is under way.
RmIdle ==
    /\ rmFs = <<>>
    /\ rmStack = <<>>
    /\ rmLog = {}
    /\ rmRet = [st |-> "none"]
    /\ rmSwaps = 0

\* No goroutine appends to a shared directory and no estimate is asked for.
AuxIdle ==
    /\ addMu = NoHolder
    /\ addTasks = <<>>
    /\ estArgs = <<>>
    /\ estRet = [called |-> FALSE]
    /\ RmIdle

\* No tree is shown.
UiIdle ==
    /\ uiState = "idle"
    /\ uiTree = <<>>
    /\ currentDir = <<>>
    /\ markedItems = <<>>
    /\ rmLast = [called |-> FALSE]
    /\ deleteDone = [deleted |-> <<>>, errors |-> 0]

DelInit ==
    /\ fs = InitialFS
    /\ delLast = [called |-> FALSE, path |-> <<>>, root |-> <<>>, ok |-> FALSE,
                  before |-> InitialFS]
    /\ UiIdle
    /\ AuxIdle

Delete(path, rootPath) ==
    LET r == DeleteResult(fs, path, rootPath) IN
    /\ fs' = r.fs
    /\ delLast' = [called |-> TRUE, path |-> path, root |-> rootPath, ok |-> r.ok,
                   before |-> fs]
    /\ UNCHANGED <<uiVars, auxVars, expVars, scanVars, impVars>>

DelNext == \E path \in DeleteInputs, rootPath \in DeleteRoots : Delete(path, rootPath)

-----------------------------------------------------------------------------
(***************************************************************************)
(* ops.ExportJSON to a file: temp file, buffered write, close, rename.     *)
(* A file is [kind, bytes]: bytes counts the units of the document it      *)
(* holds; the export is DocLen units long.                                 *)
(***************************************************************************)

\* Length of the exported document, in write units.
DocLen == 6

\* Capacity of the buffered writer, in write units.
BufCap == 2

AbsentFile == [kind |-> "absent", bytes |-> 0]
OldFile == [kind |-> "old", bytes |-> 0]
ExportFile(n) == [kind |-> "export", bytes |-> n]

NoTmp == [exists |-> FALSE, open |-> FALSE, bytes |-> 0]

ExpInit ==
    /\ expPc = "create"
    /\ expGoos \in {"linux", "windows"}
    /\ expDest \in {AbsentFile, OldFile}
    /\ expDest0 = expDest
    /\ expTmp = NoTmp
    /\ expBuf = 0
    /\ expPos = 0
    /\ expErr = FALSE
    /\ expRet = "none"

\* The values the export variables keep while another operation is modelled.
ExpIdle ==
    /\ expPc = "create"
    /\ expGoos = "linux"
    /\ expDest = AbsentFile
    /\ expDest0 = AbsentFile
    /\ expTmp = NoTmp
    /\ expBuf = 0
    /\ expPos = 0
    /\ expErr = FALSE
    /\ expRet = "none"

\* A mutant that goes on to close and rename after a failed write.
AfterWriteIgnoringError(failed) == "close"

\* if err := exportToWriter(root, tmp, version); err != nil { return err }
AfterWrite(failed) == IF failed THEN "cleanup" ELSE "close"

\* os.CreateTemp(dir, ".godu-export-*.tmp"); on failure ExportJSON returns
\* before the cleanup is deferred.
CreateTemp ==
    /\ expPc = "create"
    /\ \E fail \in BOOLEAN :
         IF fail
         THEN /\ expPc' = "done"
              /\ expRet' = "err"
              /\ expErr' = TRUE
              /\ UNCHANGED expTmp
         ELSE /\ expPc' = "write"
              /\ expTmp' = [exists |-> TRUE, open |-> TRUE, bytes |-> 0]
              /\ UNCHANGED <<expRet, expErr>>
    /\ UNCHANGED <<impVars, delVars, scanVars, expGoos, expDest, expDest0, expBuf, expPos>>

\* One ew.WriteString / ew.Write of exportToWriter and writeDir: a no-op once
\* ew.err is set; a full buffer is written to the file first, which may fail,
\* possibly after part of it reached the file.
WriteUnit ==
    /\ expPc = "write"
    /\ expPos < DocLen
    /\ expPos' = expPos + 1
    /\ IF expErr
       THEN UNCHANGED <<expBuf, expTmp, expErr>>
       ELSE IF expBuf < BufCap
       THEN /\ expBuf' = expBuf + 1
            /\ UNCHANGED <<expTmp, expErr>>
       ELSE \E n \in 0..expBuf :
              /\ expTmp' = [expTmp EXCEPT !.bytes = @ + n]
              /\ expErr' = (n < expBuf)
              /\ expBuf' = IF n < expBuf THEN expBuf ELSE 1
    /\ UNCHANGED <<impVars, delVars, scanVars, expPc, expGoos, expDest, expDest0, expRet>>

\* if ew.err != nil { return ew.err }; return bw.Flush()
FlushWriter ==
    /\ expPc = "write"
    /\ expPos = DocLen
    /\ IF expErr
       THEN /\ expPc' = AfterWrite(TRUE)
            /\ UNCHANGED <<expTmp, expBuf, expErr>>
       ELSE \E n \in 0..expBuf :
              /\ expTmp' = [expTmp EXCEPT !.bytes = @ + n]
              /\ expErr' = (n < expBuf)
              /\ expBuf' = expBuf - n
              /\ expPc' = AfterWrite(n < expBuf)
    /\ UNCHANGED <<impVars, delVars, scanVars, expGoos, expDest, expDest0, expPos, expRet>>

\* if err := tmp.Close(); err != nil { return err }
CloseTmp ==
    /\ expPc = "close"
    /\ expTmp' = [expTmp EXCEPT !.open = FALSE]
    /\ \E fail \in BOOLEAN :
         /\ expErr' = fail
         /\ expPc' = IF fail THEN "cleanup" ELSE "rename"
    /\ UNCHANGED <<impVars, delVars, scanVars, expGoos, expDest, expDest0, expBuf, expPos, expRet>>

\* os.Rename(tmpPath, path): replaces the destination in one step. On
\* Windows it fails over an existing destination; anywhere it may fail.
Rename ==
    /\ expPc = "rename"
    /\ \E fail \in BOOLEAN :
         IF fail \/ (expGoos = "windows" /\ expDest.kind # "absent")
         THEN /\ expPc' = IF expGoos # "windows" THEN "cleanup" ELSE "remove"
              /\ expErr' = (expGoos # "windows")
              /\ UNCHANGED <<expDest, expTmp>>
         ELSE /\ expDest' = ExportFile(expTmp.bytes)
              /\ expTmp' = NoTmp
              /\ expPc' = "return"
              /\ UNCHANGED expErr
    /\ UNCHANGED <<impVars, delVars, scanVars, expGoos, expDest0, expBuf, expPos, expRet>>

\* if rmErr := os.Remove(path); rmErr != nil && !errors.Is(rmErr, os.ErrNotExist)
RemoveDest ==
    /\ expPc = "remove"
    /\ IF expDest.kind = "absent"
       THEN /\ expPc' = "rename2"
            /\ UNCHANGED <<expDest, expErr>>
       ELSE \E fail \in BOOLEAN :
              IF fail
              THEN /\ expPc' = "cleanup"
                   /\ expErr' = TRUE
                   /\ UNCHANGED expDest
              ELSE /\ expPc' = "rename2"
                   /\ expDest' = AbsentFile
                   /\ UNCHANGED expErr
    /\ UNCHANGED <<impVars, delVars, scanVars, expGoos, expDest0, expTmp, expBuf, expPos, expRet>>

\* if err := os.Rename(tmpPath, path); err != nil { return err }
RenameAgain ==
    /\ expPc = "rename2"
    /\ \E fail \in BOOLEAN :
         IF fail
         THEN /\ expPc' = "cleanup"
              /\ expErr' = TRUE
              /\ UNCHANGED <<expDest, expTmp>>
         ELSE /\ expDest' = ExportFile(expTmp.bytes)
              /\ expTmp' = NoTmp
              /\ expPc' = "return"
              /\ UNCHANGED expErr
    /\ UNCHANGED <<impVars, delVars, scanVars, expGoos, expDest0, expBuf, expPos, expRet>>

\* A mutant of the deferred cleanup that leaves the temp file behind.
CleanedTmpKept(tmp) == [tmp EXCEPT !.open = FALSE]

\* tmp.Close(); os.Remove(tmpPath)
CleanedTmp(tmp) == NoTmp

\* The deferred function on a return with retErr != nil.
Cleanup ==
    /\ expPc = "cleanup"
    /\ expTmp' = CleanedTmp(expTmp)
    /\ expRet' = "err"
    /\ expPc' = "done"
    /\ UNCHANGED <<impVars, delVars, scanVars, expGoos, expDest, expDest0, expBuf, expPos, expErr>>

\* return nil
ReturnOk ==
    /\ expPc = "return"
    /\ expRet' = "ok"
    /\ expPc' = "done"
    /\ UNCHANGED impVars
    /\ UNCHANGED <<delVars, scanVars, expGoos, expDest, expDest0, expTmp, expBuf, expPos, expErr>>

ExpNext ==
    \/ CreateTemp
    \/ WriteUnit
    \/ FlushWriter
    \/ CloseTmp
    \/ Rename
    \/ RemoveDest
    \/ RenameAgain
    \/ Cleanup
    \/ ReturnOk

-----------------------------------------------------------------------------
(***************************************************************************)
(* The tree model (package model): FileNode, DirNode.                      *)
(* A node id is the sequence of directory-entry indices leading to the     *)
(* node from the root; the root is <<>>.                                   *)
(***************************************************************************)

\* The largest and smallest value of the tree's integer fields; int64 in the
\* source, TLC's integer width here.
maxInt64 == 2147483647

minInt64 == -maxInt64 - 1

FlagSymlink == "SYMLINK"
FlagError == "ERROR"
FlagHardlink == "HARDLINK"
FlagUsageEstimated == "USAGE_ESTIMATED"

\* The Parent of the root.
NilNode == <<0>>

RootId == <<>>

FileNode(name, size, usage, ino, flag, parent) ==
    [name |-> name, dir |-> FALSE, size |-> size, usage |-> usage, ino |-> ino,
     flag |-> flag, parent |-> parent, ch |-> <<>>, items |-> 0]

DirNode(name, flag, parent) ==
    [name |-> name, dir |-> TRUE, size |-> 0, usage |-> 0, ino |-> 0,
     flag |-> flag, parent |-> parent, ch |-> <<>>, items |-> 0]

NewBrokenSymlinkNode(name, parent) ==
    FileNode(name, 0, 0, 0, {FlagSymlink, FlagError}, parent)

\* DirNode.AddChild: append child c, with record rec, to d.Children.
AddChild(ns, d, c, rec) ==
    [x \in DOMAIN ns \cup {c} |->
        IF x = c THEN rec
        ELSE IF x = d THEN [ns[d] EXCEPT !.ch = Append(@, c)]
        ELSE ns[x]]

saturatingAddInt64(a, b) ==
    IF b > 0 /\ a > maxInt64 - b THEN maxInt64
    ELSE IF b < 0 /\ a < minInt64 - b THEN minInt64
    ELSE a + b

\* The loop of UpdateSize over d.Children, from accumulator acc.
RECURSIVE SumChildren(_, _, _)
SumChildren(ns, ch, acc) ==
    IF ch = <<>> THEN acc
    ELSE LET c == ns[Head(ch)]
             count == IF c.dir THEN saturatingAddInt64(acc.items, c.items) ELSE acc.items
         IN  SumChildren(ns, Tail(ch),
                 [size |-> saturatingAddInt64(acc.size, c.size),
                  usage |-> saturatingAddInt64(acc.usage, c.usage),
                  items |-> saturatingAddInt64(count, 1)])

\* A mutant of UpdateSize that leaves the item count of subdirectories out.
UpdateSizeFlatCount(ns, d) ==
    LET t == SumChildren(ns, ns[d].ch, [size |-> 0, usage |-> 0, items |-> 0]) IN
    [ns EXCEPT ![d].size = t.size, ![d].usage = t.usage, ![d].items = Len(ns[d].ch)]

\* A mutant of UpdateSize that leaves the directory's fields as they are.
UpdateSizeSkipped(ns, d) == ns

\* DirNode.UpdateSize.
UpdateSize(ns, d) ==
    LET t == SumChildren(ns, ns[d].ch, [size |-> 0, usage |-> 0, items |-> 0]) IN
    [ns EXCEPT ![d].size = t.size, ![d].usage = t.usage, ![d].items = t.items]

\* The directories of the subtree of d in the order UpdateSizeRecursiveContext
\* calls UpdateSize on them: children first.
RECURSIVE PostOrder(_, _)
RECURSIVE PostOrderAll(_, _)
PostOrderAll(ns, ch) ==
    IF ch = <<>> THEN <<>>
    ELSE (IF ns[Head(ch)].dir THEN PostOrder(ns, Head(ch)) ELSE <<>>)
         \o PostOrderAll(ns, Tail(ch))

PostOrder(ns, d) == PostOrderAll(ns, ns[d].ch) \o <<d>>

\* A mutant of the walk up the parent chain that stops at the parent.
PartsFromParentOnly(ns, p) == <<ns[p].name>>

\* The parts buildPath collects: the names of p and of the directories above
\* it, the root's first.
RECURSIVE PartsFrom(_, _)
PartsFrom(ns, p) ==
    IF p = NilNode THEN <<>> ELSE Append(PartsFrom(ns, ns[p].parent), ns[p].name)

RECURSIVE Flatten(_)
Flatten(parts) == IF parts = <<>> THEN <<>> ELSE Head(parts) \o Flatten(Tail(parts))

\* filepath.Join(parts...): the non-empty parts, separated and cleaned.
JoinParts(parts) == CleanFrom(<<>>, Flatten(parts))

\* buildPath(n.Parent, n.Name): the name itself for a node without parent,
\* else the names from the root down to the node, joined.
buildPath(ns, n) ==
    IF ns[n].parent = NilNode THEN ns[n].name
    ELSE JoinParts(Append(PartsFrom(ns, ns[n].parent), ns[n].name))

-----------------------------------------------------------------------------
(***************************************************************************)
(* The filesystems walked. A directory is named by its canonical path and  *)
(* lists its entries in the order ReadDir returns them. An entry carries   *)
(* what entry.Info() (an lstat) reports and, for a symlink, tgt: what      *)
(* filepath.EvalSymlinks and os.Stat find behind it.                       *)
(***************************************************************************)

NoTarget == [kind |-> "none", dir |-> <<>>, ino |-> 0, size |-> 0, usage |-> 0]
ToDir(d) == [kind |-> "dir", dir |-> d, ino |-> 0, size |-> 0, usage |-> 0]
ToFile(ino, size, usage) ==
    [kind |-> "file", dir |-> <<>>, ino |-> ino, size |-> size, usage |-> usage]
ToSpecial == [kind |-> "special", dir |-> <<>>, ino |-> 0, size |-> 0, usage |-> 0]
Broken == [kind |-> "broken", dir |-> <<>>, ino |-> 0, size |-> 0, usage |-> 0]

FileEnt(name, ino, size, usage, nlink) ==
    [name |-> <<name>>, kind |-> "file", dir |-> <<>>, ino |-> ino, size |-> size,
     usage |-> usage, nlink |-> nlink, infoErr |-> FALSE, tgt |-> NoTarget]

DirEnt(name, d) ==
    [name |-> <<name>>, kind |-> "dir", dir |-> d, ino |-> 0, size |-> 0,
     usage |-> 0, nlink |-> 2, infoErr |-> FALSE, tgt |-> NoTarget]

SymlinkEnt(name, ino, tgt) ==
    [name |-> <<name>>, kind |-> "symlink", dir |-> <<>>, ino |-> ino, size |-> 1,
     usage |-> 0, nlink |-> 1, infoErr |-> FALSE, tgt |-> tgt]

SpecialEnt(name) ==
    [name |-> <<name>>, kind |-> "special", dir |-> <<>>, ino |-> 0, size |-> 0,
     usage |-> 0, nlink |-> 1, infoErr |-> FALSE, tgt |-> NoTarget]

VanishedEnt(name) ==
    [name |-> <<name>>, kind |-> "file", dir |-> <<>>, ino |-> 0, size |-> 0,
     usage |-> 0, nlink |-> 1, infoErr |-> TRUE, tgt |-> NoTarget]

Listing(entries) == [open |-> TRUE, readFail |-> FALSE, entries |-> entries]
Unreadable == [open |-> FALSE, readFail |-> FALSE, entries |-> <<>>]
FailingListing(entries) == [open |-> TRUE, readFail |-> TRUE, entries |-> entries]

\* Hard links and a file symlink: inode 2 has three links, in /r/a, /r/b and
\* /r/b/c; /r/a/l is a symlink to /r/f1; .h is hidden and skip is excluded.
LinksFS ==
    (<<"r">> :> Listing(<< DirEnt("a", <<"r", "a">>),
                          FileEnt("f1", 1, 3, 4, 1),
                          DirEnt("b", <<"r", "b">>),
                          FileEnt(".h", 4, 1, 4, 1),
                          DirEnt("skip", <<"r", "skip">>) >>)) @@
    (<<"r", "a">> :> Listing(<< FileEnt("h1", 2, 5, 8, 3),
                               SymlinkEnt("l", 7, ToFile(1, 3, 4)) >>)) @@
    (<<"r", "b">> :> Listing(<< FileEnt("h2", 2, 5, 8, 3),
                               DirEnt("c", <<"r", "b", "c">>) >>)) @@
    (<<"r", "b", "c">> :> Listing(<< FileEnt("h3", 2, 5, 8, 3) >>)) @@
    (<<"r", "skip">> :> Listing(<< FileEnt("ignored", 9, 9, 12, 1) >>))

\* Symlinked directories: /r/in points inside the root, /r/out and /r/d/up
\* form a cycle through /o outside the root, /r/br is broken, /r/dev is a
\* device, /r/x cannot be opened and reading /o fails after its entries.
SymdirFS ==
    (<<"r">> :> Listing(<< DirEnt("d", <<"r", "d">>),
                          SymlinkEnt("in", 11, ToDir(<<"r", "d">>)),
                          SymlinkEnt("out", 12, ToDir(<<"o">>)),
                          SymlinkEnt("br", 13, Broken),
                          SpecialEnt("dev"),
                          DirEnt("x", <<"r", "x">>) >>)) @@
    (<<"r", "d">> :> Listing(<< SymlinkEnt("up", 14, ToDir(<<"r">>)),
                               FileEnt("g", 5, 2, 4, 1),
                               SymlinkEnt("o2", 15, ToDir(<<"o">>)),
                               VanishedEnt("gone") >>)) @@
    (<<"o">> :> FailingListing(<< SymlinkEnt("back", 16, ToDir(<<"r", "d">>)),
                                 FileEnt("s", 6, 1, 4, 1),
                                 SymlinkEnt("self", 17, ToDir(<<"o">>)),
                                 SymlinkEnt("pipe", 18, ToSpecial) >>)) @@
    (<<"r", "x">> :> Unreadable)

\* A directory with one file and one subdirectory; a name in the subdirectory
\* is Latin-1, not valid UTF-8.
TinyFS ==
    (<<"r">> :> Listing(<< DirEnt("a", <<"r", "a">>), FileEnt("f", 1, 3, 4, 1) >>)) @@
    (<<"r", "a">> :> Listing(<< FileEnt("g", 2, 2, 4, 1), FileEnt("caf<E9>", 3, 1, 4, 1) >>))

\* A root that cannot be opened, and one whose listing fails after an entry.
DeniedFS == (<<"r">> :> Unreadable)

RootFailFS == (<<"r">> :> FailingListing(<< FileEnt("f", 1, 3, 4, 1) >>))

\* Entries the walker filters: /r/in0 is a symlink to /r/z listed before z,
\* /r/.hid a hidden directory, /r/z/skip an excluded directory below the
\* root, sock and fifo special files, tosock a symlink to one, /r/k/up a
\* symlink to the root itself and /r/k/tohid one to the hidden directory.
FilterFS ==
    (<<"r">> :> Listing(<< SymlinkEnt("in0", 21, ToDir(<<"r", "z">>)),
                          DirEnt("z", <<"r", "z">>),
                          DirEnt(".hid", <<"r", ".hid">>),
                          SpecialEnt("sock"),
                          SymlinkEnt("tosock", 22, ToSpecial),
                          DirEnt("k", <<"r", "k">>) >>)) @@
    (<<"r", "z">> :> Listing(<< FileEnt("zf", 5, 2, 4, 1),
                               DirEnt("skip", <<"r", "z", "skip">>),
                               FileEnt(".hf", 6, 1, 4, 1) >>)) @@
    (<<"r", "z", "skip">> :> Listing(<< FileEnt("ignored", 9, 9, 12, 1) >>)) @@
    (<<"r", ".hid">> :> Listing(<< FileEnt("inner", 7, 4, 4, 1) >>)) @@
    (<<"r", "k">> :> Listing(<< SymlinkEnt("up", 23, ToDir(<<"r">>)),
                               SpecialEnt("fifo"),
                               SymlinkEnt("tohid", 24, ToDir(<<"r", ".hid">>)) >>))

\* The target of a symlink to a file: the resolved path and its size.
ToRemoteFile(path, size) ==
    [kind |-> "file", dir |-> path, ino |-> 0, size |-> size, usage |-> 0]

\* A remote tree whose files are reached several times: /r/target directly,
\* through /r/alias and through /r/a/l2; /r/b/y directly, through /r/b/z and
\* through /r/a/x; /r/out leads to /o outside the root, whose file /o/s is
\* also the target of /r/b/s2.
SftpFS ==
    (<<"r">> :> Listing(<< DirEnt("a", <<"r", "a">>),
                          FileEnt("target", 0, 10, 0, 1),
                          SymlinkEnt("alias", 0, ToRemoteFile(<<"r", "target">>, 10)),
                          DirEnt("b", <<"r", "b">>),
                          SymlinkEnt("out", 0, ToDir(<<"o">>)) >>)) @@
    (<<"r", "a">> :> Listing(<< SymlinkEnt("l2", 0, ToRemoteFile(<<"r", "target">>, 10)),
                               SymlinkEnt("x", 0, ToRemoteFile(<<"r", "b", "y">>, 1)) >>)) @@
    (<<"r", "b">> :> Listing(<< FileEnt("y", 0, 1, 0, 1),
                               SymlinkEnt("z", 0, ToRemoteFile(<<"r", "b", "y">>, 1)),
                               SymlinkEnt("s2", 0, ToRemoteFile(<<"o", "s">>, 5000)) >>)) @@
    (<<"o">> :> Listing(<< FileEnt("s", 0, 5000, 0, 1) >>))

\* Two symlinks that lead out of the root, /r/l to /o/x and /r/m to /o: the
\* directory /o/x is reached through /r/l and again as the plain
\* subdirectory x of /o.
ReentryFS ==
    (<<"r">> :> Listing(<< SymlinkEnt("l", 31, ToDir(<<"o", "x">>)),
                          SymlinkEnt("m", 32, ToDir(<<"o">>)),
                          FileEnt("f", 1, 3, 4, 1) >>)) @@
    (<<"o">> :> Listing(<< DirEnt("x", <<"o", "x">>), FileEnt("s", 6, 1, 4, 1) >>)) @@
    (<<"o", "x">> :> Listing(<< FileEnt("t", 8, 2, 4, 1) >>))

ScanFS(scn) ==
    IF scn = "links" THEN LinksFS
    ELSE IF scn \in {"reentry", "sftpreentry"} THEN ReentryFS
    ELSE IF scn = "symdir" THEN SymdirFS
    ELSE IF scn = "denied" THEN DeniedFS
    ELSE IF scn = "rootfail" THEN RootFailFS
    ELSE IF scn = "filter" THEN FilterFS
    ELSE IF scn \in {"sftp", "sftpvfs"} THEN SftpFS
    ELSE TinyFS

\* What os.Stat(absPath) finds at the path given to Scan.
RootStat(scn) ==
    IF scn = "missing" THEN "missing"
    ELSE IF scn = "notdir" THEN "file"
    ELSE "dir"

\* absPath after filepath.EvalSymlinks: the canonical scan root.
ScanRoot == <<"r">>

\* opts.ExcludePatterns.
excludeSet == {<<"skip">>}

\* Names whose first byte is '.'.
DotNames == {<<".h">>, <<".hid">>, <<".hf">>}

\* len(name) > 0 && name[0] == '.'
\* A mutant that takes no name for hidden.
IsHiddenNone(name) == FALSE

IsHidden(name) == name \in DotNames

\* isWithin(root, target).
\* A mutant that takes no target to lie inside the scan root.
isWithinNever(root, target) == FALSE

isWithin(root, target) ==
    LET rel == Rel(root, target) IN
    IF rel = <<".">> THEN TRUE
    ELSE rel # <<"..">> /\ ~(Len(rel) > 1 /\ rel[1] = "..")

-----------------------------------------------------------------------------
(***************************************************************************)
(* ParallelScanner.scanDir: what one directory entry contributes.          *)
(***************************************************************************)

\* getStatInfo's ok: the platform stat is available (stat_unix.go).
StatOK == TRUE

\* A mutant that consults the hardlink table for multiply linked files only.
DedupAppliesHardlinksOnly(nlink, follow) == nlink > 1

\* si.nlink > 1 || opts.FollowSymlinks
DedupApplies(nlink, follow) == nlink > 1 \/ follow

Skipped(vis, imap) ==
    [add |-> FALSE, rec |-> DirNode(<<>>, {}, NilNode), scan |-> FALSE, path |-> <<>>,
     errs |-> 0, files |-> 0, bytes |-> 0, vis |-> vis, imap |-> imap]

\* A file node under the hardlink table: the first sighting of the inode key
\* carries the sizes, a later one is zero-sized and flagged HARDLINK.
FileOutcome(name, ino, size, usage, flag, dedup, parent, vis, imap) ==
    IF dedup /\ ino \in imap
    THEN [add |-> TRUE,
          rec |-> FileNode(name, 0, 0, ino, flag \cup {FlagHardlink}, parent),
          scan |-> FALSE, path |-> <<>>, errs |-> 0, files |-> 1, bytes |-> 0,
          vis |-> vis, imap |-> imap]
    ELSE [add |-> TRUE,
          rec |-> FileNode(name, size, usage, ino, flag, parent),
          scan |-> FALSE, path |-> <<>>, errs |-> 0, files |-> 1, bytes |-> size,
          vis |-> vis, imap |-> IF dedup THEN imap \cup {ino} ELSE imap]

\* A mutant that scans a directory whether or not its path was claimed.
DirOutcomeUnclaimed(name, flag, scanPath, claim, parent, vis, imap) ==
    [add |-> TRUE, rec |-> DirNode(name, flag, parent),
     scan |-> claim, path |-> scanPath,
     errs |-> 0, files |-> 0, bytes |-> 0,
     vis |-> IF claim THEN vis \cup {scanPath} ELSE vis, imap |-> imap]

\* A directory node; claim says whether visitedDirs is consulted.
DirOutcome(name, flag, scanPath, claim, parent, vis, imap) ==
    [add |-> TRUE, rec |-> DirNode(name, flag, parent),
     scan |-> claim /\ scanPath \notin vis, path |-> scanPath,
     errs |-> 0, files |-> 0, bytes |-> 0,
     vis |-> IF claim THEN vis \cup {scanPath} ELSE vis, imap |-> imap]

\* A mutant that leaves the errors counter alone for a broken symlink.
BrokenOutcomeUncounted(name, parent, vis, imap) ==
    [add |-> TRUE, rec |-> NewBrokenSymlinkNode(name, parent), scan |-> FALSE,
     path |-> <<>>, errs |-> 0, files |-> 1, bytes |-> 0, vis |-> vis, imap |-> imap]

\* errCount.Add(1); parent.AddChild(model.NewBrokenSymlinkNode(name, parent));
\* filesScanned.Add(1)
BrokenOutcome(name, parent, vis, imap) ==
    [add |-> TRUE, rec |-> NewBrokenSymlinkNode(name, parent), scan |-> FALSE,
     path |-> <<>>, errs |-> 1, files |-> 1, bytes |-> 0, vis |-> vis, imap |-> imap]

\* The body of the loop over entries, after the cancellation check.
ProcessEntry(e, parent, scanRoot, opts, vis, imap) ==
    IF e.name \in excludeSet THEN Skipped(vis, imap)
    ELSE IF ~opts.hidden /\ IsHidden(e.name) THEN Skipped(vis, imap)
    ELSE IF e.infoErr THEN [Skipped(vis, imap) EXCEPT !.errs = 1]
    ELSE IF e.kind = "special" THEN Skipped(vis, imap)
    ELSE IF e.kind = "dir"
         THEN DirOutcome(e.name, {}, e.dir, TRUE, parent, vis, imap)
    ELSE IF e.kind = "symlink" /\ opts.follow
         THEN IF e.tgt.kind = "broken" THEN BrokenOutcome(e.name, parent, vis, imap)
              ELSE IF e.tgt.kind = "special" THEN Skipped(vis, imap)
              ELSE IF e.tgt.kind = "dir"
                   THEN DirOutcome(e.name, {FlagSymlink}, e.tgt.dir,
                                   ~isWithin(scanRoot, e.tgt.dir), parent, vis, imap)
              ELSE FileOutcome(e.name, e.tgt.ino, e.tgt.size, e.tgt.usage,
                               {FlagSymlink}, StatOK, parent, vis, imap)
    ELSE FileOutcome(e.name, e.ino, e.size, e.usage,
                     IF e.kind = "symlink" THEN {FlagSymlink} ELSE {},
                     StatOK /\ DedupApplies(e.nlink, opts.follow), parent, vis, imap)

-----------------------------------------------------------------------------
(***************************************************************************)
(* The walker's goroutines. A task is a goroutine: the caller's (RootId)   *)
(* or one started by spawnScan, named by the node it was started for. Its  *)
(* stack holds the scanDir calls it is in, innermost first.                *)
(***************************************************************************)

\* Largest opts.Concurrency tried.
MaxConc == 2

Frame(path, node) == [dir |-> path, node |-> node, i |-> 1, ph |-> "enter"]

Top(t) == Head(tasks[t].stack)

Running(t) == t \in DOMAIN tasks /\ tasks[t].st = "run" /\ tasks[t].stack # <<>>

SetTop(ts, t, f) == [ts EXCEPT ![t].stack = <<f>> \o Tail(@)]

\* scanDir returns to its caller.
Pop(ts, t) == [ts EXCEPT ![t].stack = Tail(@)]

TheFS == ScanFS(scOpts.scn)

pubVars == <<pub, progressDone, emitted, chanLen, chanClosed, panicked>>

coordVars == <<scOpts, scPc, scRet, aggTodo>>

\* select { case <-ctx.Done(): return; default: } at the top of scanDir.
ScanEnter(t) ==
    /\ Running(t)
    /\ Top(t).ph = "enter"
    /\ tasks' = IF ctx THEN Pop(tasks, t)
                ELSE SetTop(tasks, t, [Top(t) EXCEPT !.ph = "open"])
    /\ UNCHANGED <<impVars, delVars, expVars, coordVars, pubVars, ctx, nodes, sem, wg, visitedDirs,
                   inodeMap, cnt, opens>>

\* dir, err := os.Open(dirPath): on failure the node is flagged and scanDir
\* returns.
ScanOpen(t) ==
    /\ Running(t)
    /\ Top(t).ph = "open"
    /\ IF TheFS[Top(t).dir].open
       THEN /\ tasks' = SetTop(tasks, t, [Top(t) EXCEPT !.ph = "check"])
            /\ cnt' = [cnt EXCEPT !.dirs = @ + 1]
            /\ opens' = opens \cup {<<Top(t).dir, Top(t).node>>}
            /\ UNCHANGED nodes
       ELSE /\ tasks' = Pop(tasks, t)
            /\ nodes' = [nodes EXCEPT ![Top(t).node].flag = @ \cup {FlagError}]
            /\ cnt' = [cnt EXCEPT !.errs = @ + 1]
            /\ UNCHANGED opens
    /\ UNCHANGED impVars
    /\ UNCHANGED <<delVars, expVars, coordVars, pubVars, ctx, sem, wg, visitedDirs, inodeMap>>

\* A loop over entries that goes on without looking at ctx.
ScanCheckBlind(t) ==
    /\ Running(t)
    /\ Top(t).ph = "check"
    /\ Top(t).i <= Len(TheFS[Top(t).dir].entries)
    /\ tasks' = SetTop(tasks, t, [Top(t) EXCEPT !.ph = "entry"])
    /\ UNCHANGED <<impVars, delVars, expVars, coordVars, pubVars, ctx, nodes, sem, wg, visitedDirs,
                   inodeMap, cnt, opens>>

\* The cancellation check at the top of the loop over entries.
ScanCheck(t) ==
    /\ Running(t)
    /\ Top(t).ph = "check"
    /\ Top(t).i <= Len(TheFS[Top(t).dir].entries)
    /\ tasks' = IF ctx THEN Pop(tasks, t)
                ELSE SetTop(tasks, t, [Top(t) EXCEPT !.ph = "entry"])
    /\ UNCHANGED <<impVars, delVars, expVars, coordVars, pubVars, ctx, nodes, sem, wg, visitedDirs,
                   inodeMap, cnt, opens>>

\* A mutant of spawnScan that starts a goroutine whether or not a slot is free.
spawnScanAlwaysGo(s, c) == "go"

\* spawnScan's select: "go" if the send on sem succeeds at once, else "call".
spawnScan(s, c) == IF s < c THEN "go" ELSE "call"

\* One entry: its node is appended, the tables are consulted and spawnScan
\* starts a goroutine if a semaphore slot is free, and otherwise calls scanDir
\* in this goroutine.
ScanEntry(t) ==
    /\ Running(t)
    /\ Top(t).ph = "entry"
    /\ LET f == Top(t)
           child == Append(f.node, f.i)
           o == ProcessEntry(TheFS[f.dir].entries[f.i], f.node, ScanRoot, scOpts,
                             visitedDirs, inodeMap)
           next == [f EXCEPT !.i = @ + 1, !.ph = "check"]
           spawn == o.scan /\ spawnScan(sem, scOpts.conc) = "go"
       IN  /\ nodes' = IF o.add THEN AddChild(nodes, f.node, child, o.rec) ELSE nodes
           /\ visitedDirs' = o.vis
           /\ inodeMap' = o.imap
           /\ cnt' = [cnt EXCEPT !.errs = @ + o.errs, !.files = @ + o.files,
                                 !.bytes = @ + o.bytes]
           /\ sem' = IF spawn THEN sem + 1 ELSE sem
           /\ wg' = IF spawn THEN wg + 1 ELSE wg
           /\ tasks' =
                IF ~o.scan THEN SetTop(tasks, t, next)
                ELSE IF spawn
                THEN [x \in DOMAIN tasks \cup {child} |->
                        IF x = child THEN [stack |-> <<Frame(o.path, child)>>, st |-> "run"]
                        ELSE IF x = t THEN SetTop(tasks, t, next)[t]
                        ELSE tasks[x]]
                ELSE [tasks EXCEPT ![t].stack = <<Frame(o.path, child), next>> \o Tail(@)]
    /\ UNCHANGED <<impVars, delVars, expVars, coordVars, pubVars, ctx, opens>>

\* dir.ReadDir returned io.EOF, or an error after the entries it delivered.
ScanReadEnd(t) ==
    /\ Running(t)
    /\ Top(t).ph = "check"
    /\ Top(t).i > Len(TheFS[Top(t).dir].entries)
    /\ tasks' = Pop(tasks, t)
    /\ IF TheFS[Top(t).dir].readFail
       THEN /\ nodes' = [nodes EXCEPT ![Top(t).node].flag = @ \cup {FlagError}]
            /\ cnt' = [cnt EXCEPT !.errs = @ + 1]
       ELSE UNCHANGED <<nodes, cnt>>
    /\ UNCHANGED impVars
    /\ UNCHANGED <<delVars, expVars, coordVars, pubVars, ctx, sem, wg, visitedDirs, inodeMap,
                   opens>>

\* A goroutine that ends without receiving from sem.
TaskReleaseKeepsSlot(t) ==
    /\ t \in DOMAIN tasks
    /\ t # RootId
    /\ tasks[t].st = "run"
    /\ tasks[t].stack = <<>>
    /\ sem' = sem
    /\ tasks' = [tasks EXCEPT ![t].st = "released"]
    /\ UNCHANGED <<impVars, delVars, expVars, coordVars, pubVars, ctx, nodes, wg, visitedDirs,
                   inodeMap, cnt, opens>>

\* defer func() { <-sem }() of a spawned goroutine.
TaskRelease(t) ==
    /\ t \in DOMAIN tasks
    /\ t # RootId
    /\ tasks[t].st = "run"
    /\ tasks[t].stack = <<>>
    /\ sem' = sem - 1
    /\ tasks' = [tasks EXCEPT ![t].st = "released"]
    /\ UNCHANGED <<impVars, delVars, expVars, coordVars, pubVars, ctx, nodes, wg, visitedDirs,
                   inodeMap, cnt, opens>>

\* defer wg.Done() of a spawned goroutine, which then ends.
TaskDone(t) ==
    /\ t \in DOMAIN tasks
    /\ tasks[t].st = "released"
    /\ wg' = wg - 1
    /\ tasks' = [x \in DOMAIN tasks \ {t} |-> tasks[x]]
    /\ UNCHANGED <<impVars, delVars, expVars, coordVars, pubVars, ctx, nodes, sem, visitedDirs,
                   inodeMap, cnt, opens>>

-----------------------------------------------------------------------------
(***************************************************************************)
(* The walk when every spawnScan takes its default branch: each scanDir    *)
(* call runs to its end inside the caller's goroutine, depth first.        *)
(***************************************************************************)

\* scanDir(dirPath, node) and its loop from entry i on, over the walker's
\* shared state w = [nodes, vis, imap].
RECURSIVE scanDirInline(_, _, _, _)
RECURSIVE scanEntriesInline(_, _, _, _, _)
scanEntriesInline(dirPath, node, i, opts, w) ==
    LET listing == ScanFS(opts.scn)[dirPath] IN
    IF i > Len(listing.entries)
    THEN IF listing.readFail
         THEN [w EXCEPT !.nodes[node].flag = @ \cup {FlagError}]
         ELSE w
    ELSE LET o == ProcessEntry(listing.entries[i], node, ScanRoot, opts, w.vis, w.imap)
             child == Append(node, i)
             w1 == [nodes |-> IF o.add THEN AddChild(w.nodes, node, child, o.rec)
                              ELSE w.nodes,
                    vis |-> o.vis, imap |-> o.imap]
         IN  scanEntriesInline(dirPath, node, i + 1, opts,
                 IF o.scan THEN scanDirInline(o.path, child, opts, w1) ELSE w1)

scanDirInline(dirPath, node, opts, w) ==
    IF ScanFS(opts.scn)[dirPath].open
    THEN scanEntriesInline(dirPath, node, 1, opts, w)
    ELSE [w EXCEPT !.nodes[node].flag = @ \cup {FlagError}]

\* UpdateSizeRecursiveContext run to its end over the directories in todo.
RECURSIVE UpdateSizeRecursive(_, _)
UpdateSizeRecursive(ns, todo) ==
    IF todo = <<>> THEN ns
    ELSE UpdateSizeRecursive(UpdateSize(ns, Head(todo)), Tail(todo))

\* The tree Scan returns for opts when no goroutine is started.
ScanInline(opts) ==
    LET w == scanDirInline(ScanRoot, RootId, opts,
                 [nodes |-> (RootId :> DirNode(ScanRoot, {}, NilNode)),
                  vis |-> {ScanRoot}, imap |-> {}])
    IN  UpdateSizeRecursive(w.nodes, PostOrder(w.nodes, RootId))

-----------------------------------------------------------------------------
(***************************************************************************)
(* ParallelScanner.Scan: the caller's goroutine around the walk, the       *)
(* cancellation of ctx, and the progress reporter goroutine.               *)
(***************************************************************************)

\* Capacity of the caller's progress channel.
ChanCap == 1

\* Most records the reporter's ticker gets to send in one scan.
MaxTicks == 2

ZeroCounters == [files |-> 0, dirs |-> 0, bytes |-> 0, errs |-> 0]

\* A mutant whose final record starts from fresh counters.
SnapshotResetWhenDone(c, done) ==
    IF done THEN [files |-> 0, dirs |-> 0, bytes |-> 0, errs |-> 0, done |-> done]
    ELSE [files |-> c.files, dirs |-> c.dirs, bytes |-> c.bytes, errs |-> c.errs,
          done |-> done]

\* Progress{...}: the counters as loaded at the send.
Snapshot(c, done) ==
    [files |-> c.files, dirs |-> c.dirs, bytes |-> c.bytes, errs |-> c.errs, done |-> done]

\* The scan variables before Scan is called, for options o and a context
\* that is already cancelled iff o.pre.
ScanBefore(o) ==
    /\ scOpts = o
    /\ ctx = o.pre
    /\ scPc = "start"
    /\ scRet = "none"
    /\ nodes = << >>
    /\ tasks = << >>
    /\ sem = 0
    /\ wg = 0
    /\ visitedDirs = {}
    /\ inodeMap = {}
    /\ cnt = ZeroCounters
    /\ aggTodo = <<>>
    /\ opens = {}
    /\ pub = "none"
    /\ progressDone = FALSE
    /\ emitted = <<>>
    /\ chanLen = 0
    /\ chanClosed = FALSE
    /\ panicked = FALSE

Options(scn, conc, follow, hidden, progress, pre) ==
    [scn |-> scn, conc |-> conc, follow |-> follow, hidden |-> hidden,
     progress |-> progress, pre |-> pre]

ScanIdle == ScanBefore(Options("links", 1, FALSE, FALSE, FALSE, FALSE))

\* Scan up to the call of scanDir: it returns an error and no tree if
\* os.Stat fails or finds no directory; otherwise the root node, the reporter
\* goroutine if progress != nil, visitedDirs.Store(absPath).
ScanStart ==
    /\ scPc = "start"
    /\ IF RootStat(scOpts.scn) # "dir"
       THEN /\ scPc' = "returned"
            /\ scRet' = "error"
            /\ UNCHANGED <<nodes, pub, visitedDirs, tasks>>
       ELSE /\ scPc' = "walk"
            /\ nodes' = (RootId :> DirNode(ScanRoot, {}, NilNode))
            /\ pub' = IF scOpts.progress THEN "running" ELSE "none"
            /\ visitedDirs' = {ScanRoot}
            /\ tasks' = (RootId :> [stack |-> <<Frame(ScanRoot, RootId)>>, st |-> "run"])
            /\ UNCHANGED scRet
    /\ UNCHANGED <<impVars, delVars, expVars, scOpts, ctx, sem, wg, inodeMap, cnt, aggTodo, opens,
                   progressDone, emitted, chanLen, chanClosed, panicked>>

\* A mutant of WaitWalkers that goes on once scanDir has returned to Scan,
\* without wg.Wait().
WaitWalkersRootOnly ==
    /\ scPc = "walk"
    /\ tasks[RootId].stack = <<>>
    /\ scPc' = "check1"
    /\ UNCHANGED impVars
    /\ UNCHANGED <<delVars, expVars, scOpts, ctx, scRet, nodes, tasks, sem, wg, visitedDirs,
                   inodeMap, cnt,
                   aggTodo, opens, pubVars>>

\* scanDir has returned to Scan and wg.Wait() returns.
WaitWalkers ==
    /\ scPc = "walk"
    /\ tasks[RootId].stack = <<>>
    /\ wg = 0
    /\ scPc' = "check1"
    /\ UNCHANGED impVars
    /\ UNCHANGED <<delVars, expVars, scOpts, ctx, scRet, nodes, tasks, sem, wg, visitedDirs,
                   inodeMap, cnt,
                   aggTodo, opens, pubVars>>

\* if err := ctx.Err(); err != nil { return root, err }, else the call of
\* root.UpdateSizeRecursiveContext(ctx).
CheckAfterWalk ==
    /\ scPc = "check1"
    /\ IF ctx
       THEN /\ scPc' = "returned"
            /\ scRet' = "canceled"
            /\ UNCHANGED aggTodo
       ELSE /\ scPc' = "agg"
            /\ aggTodo' = PostOrder(nodes, RootId)
            /\ UNCHANGED scRet
    /\ UNCHANGED <<impVars, delVars, expVars, scOpts, ctx, nodes, tasks, sem, wg, visitedDirs,
                   inodeMap, cnt, opens,
                   pubVars>>

\* UpdateSizeRecursiveContext up to and including its next UpdateSize: it
\* checks ctx before every one and unwinds without aggregating when cancelled.
Aggregate ==
    /\ scPc = "agg"
    /\ IF ctx \/ aggTodo = <<>>
       THEN /\ scPc' = "final"
            /\ aggTodo' = <<>>
            /\ UNCHANGED nodes
       ELSE /\ nodes' = UpdateSize(nodes, Head(aggTodo))
            /\ aggTodo' = Tail(aggTodo)
            /\ UNCHANGED scPc
    /\ UNCHANGED <<impVars, delVars, expVars, scOpts, ctx, scRet, tasks, sem, wg, visitedDirs,
                   inodeMap, cnt, opens,
                   pubVars>>

\* if progress != nil { close(progressDone) ... }
StopReporter ==
    /\ scPc = "final"
    /\ IF scOpts.progress
       THEN scPc' = "pubwait" /\ progressDone' = TRUE
       ELSE scPc' = "check2" /\ UNCHANGED progressDone
    /\ UNCHANGED impVars
    /\ UNCHANGED <<delVars, expVars, scOpts, ctx, scRet, nodes, tasks, sem, wg, visitedDirs,
                   inodeMap, cnt,
                   aggTodo, opens, pub, emitted, chanLen, chanClosed, panicked>>

\* progressWg.Wait() returns and the Done record is sent, or dropped if the
\* channel is full.
SendFinal ==
    /\ scPc = "pubwait"
    /\ pub = "stopped"
    /\ scPc' = "check2"
    /\ IF chanLen < ChanCap
       THEN /\ emitted' = Append(emitted, Snapshot(cnt, TRUE))
            /\ chanLen' = chanLen + 1
       ELSE UNCHANGED <<emitted, chanLen>>
    /\ UNCHANGED impVars
    /\ UNCHANGED <<delVars, expVars, scOpts, ctx, scRet, nodes, tasks, sem, wg, visitedDirs,
                   inodeMap, cnt,
                   aggTodo, opens, pub, progressDone, chanClosed, panicked>>

\* The last ctx.Err() check and the return.
ScanReturn ==
    /\ scPc = "check2"
    /\ scPc' = "returned"
    /\ scRet' = IF ctx THEN "canceled" ELSE "ok"
    /\ UNCHANGED impVars
    /\ UNCHANGED <<delVars, expVars, scOpts, ctx, nodes, tasks, sem, wg, visitedDirs, inodeMap, cnt,
                   aggTodo, opens, pubVars>>

\* The owner of ctx cancels it, or its deadline passes, while Scan runs.
Cancel ==
    /\ scPc \notin {"start", "returned"}
    /\ ~ctx
    /\ ctx' = TRUE
    /\ UNCHANGED impVars
    /\ UNCHANGED <<delVars, expVars, scOpts, scPc, scRet, nodes, tasks, sem, wg, visitedDirs,
                   inodeMap, cnt,
                   aggTodo, opens, pubVars>>

\* case <-ticker.C: a non-blocking send of the current counters. A send on a
\* channel the caller has closed panics.
Tick ==
    /\ pub = "running"
    /\ ~panicked
    /\ Len(emitted) < MaxTicks
    /\ IF chanClosed
       THEN panicked' = TRUE /\ UNCHANGED <<emitted, chanLen>>
       ELSE IF chanLen < ChanCap
       THEN /\ emitted' = Append(emitted, Snapshot(cnt, FALSE))
            /\ chanLen' = chanLen + 1
            /\ UNCHANGED panicked
       ELSE UNCHANGED <<emitted, chanLen, panicked>>
    /\ UNCHANGED <<impVars, delVars, expVars, scOpts, ctx, scPc, scRet, nodes, tasks, sem, wg,
                   visitedDirs, inodeMap,
                   cnt, aggTodo, opens, pub, progressDone, chanClosed>>

\* case <-progressDone: return.
ReporterExit ==
    /\ pub = "running"
    /\ ~panicked
    /\ progressDone
    /\ pub' = "stopped"
    /\ UNCHANGED <<impVars, delVars, expVars, scOpts, ctx, scPc, scRet, nodes, tasks, sem, wg,
                   visitedDirs, inodeMap,
                   cnt, aggTodo, opens, progressDone, emitted, chanLen, chanClosed, panicked>>

\* The caller's consumer receives one record.
Receive ==
    /\ chanLen > 0
    /\ chanLen' = chanLen - 1
    /\ UNCHANGED <<impVars, delVars, expVars, scOpts, ctx, scPc, scRet, nodes, tasks, sem, wg,
                   visitedDirs, inodeMap,
                   cnt, aggTodo, opens, pub, progressDone, emitted, chanClosed, panicked>>

\* The caller closes its progress channel once Scan has returned.
CloseProgress ==
    /\ scPc = "returned"
    /\ scOpts.progress
    /\ ~chanClosed
    /\ chanClosed' = TRUE
    /\ UNCHANGED <<impVars, delVars, expVars, scOpts, ctx, scPc, scRet, nodes, tasks, sem, wg,
                   visitedDirs, inodeMap,
                   cnt, aggTodo, opens, pub, progressDone, emitted, chanLen, panicked>>

WalkNext ==
    \/ \E t \in DOMAIN tasks : ScanEnter(t)
    \/ \E t \in DOMAIN tasks : ScanOpen(t)
    \/ \E t \in DOMAIN tasks : ScanCheck(t)
    \/ \E t \in DOMAIN tasks : ScanEntry(t)
    \/ \E t \in DOMAIN tasks : ScanReadEnd(t)
    \/ \E t \in DOMAIN tasks : TaskRelease(t)
    \/ \E t \in DOMAIN tasks : TaskDone(t)

CoordNext ==
    \/ ScanStart
    \/ WaitWalkers
    \/ CheckAfterWalk
    \/ Aggregate
    \/ StopReporter
    \/ ScanReturn

ReporterNext ==
    \/ SendFinal
    \/ Tick
    \/ ReporterExit
    \/ Receive
    \/ CloseProgress

-----------------------------------------------------------------------------
(***************************************************************************)
(* The remote scanner (SFTPScanner.scanWithClient, SFTPScanner.scanDir).   *)
(* Its scanDir has the structure of the local one: the cancellation        *)
(* checks, the read of the directory, the semaphore and the WaitGroup are  *)
(* the actions above; the entry and the start of the scan are its own.     *)
(***************************************************************************)

defaultRemoteBlockSize == 4096

\* a + b in two's complement at the width of the tree's integers.
wrapAddInt64(a, b) ==
    IF b > 0 /\ a > maxInt64 - b THEN (a - maxInt64) + (b - maxInt64) - 2
    ELSE IF b < 0 /\ a < minInt64 - b THEN (a - minInt64) + (b - minInt64)
    ELSE a + b

\* Go's a / b for b > 0: the quotient truncated toward zero.
truncDiv(a, b) == IF a >= 0 THEN a \div b ELSE (a + b - 1) \div b

\* A mutant of estimateDiskUsage that rounds down.
estimateDiskUsageFloor(size, blockSize) ==
    LET b == IF blockSize <= 0 THEN defaultRemoteBlockSize ELSE blockSize IN
    IF size <= 0 THEN 0 ELSE truncDiv(size, b) * b

\* estimateDiskUsage. The product cannot leave the integer range: it lies
\* between zero and the sum it was divided from.
estimateDiskUsage(size, blockSize) ==
    LET b == IF blockSize <= 0 THEN defaultRemoteBlockSize ELSE blockSize
        blocks == truncDiv(wrapAddInt64(wrapAddInt64(size, b), -1), b)
    IN  IF size <= 0 THEN 0 ELSE blocks * b

\* What StatVFS reports: vfs is FALSE when the client has no StatVFS or it
\* fails. frsize and bsize are uint64 in the source; a value above maxInt64
\* is written here as the negative number of the same bits.
NoStatVFS == [vfs |-> FALSE, frsize |-> 0, bsize |-> 0]
StatVFS(frsize, bsize) == [vfs |-> TRUE, frsize |-> frsize, bsize |-> bsize]

\* remoteBlockSize.
remoteBlockSize(stat) ==
    IF ~stat.vfs THEN defaultRemoteBlockSize
    ELSE IF stat.frsize > 0 THEN stat.frsize
    ELSE IF stat.bsize > 0 THEN stat.bsize
    ELSE defaultRemoteBlockSize

\* isWithinRemote: the target is the root or lies beneath it.
isWithinRemote(root, target) == IsPrefix(root, target)

\* What the server answers to StatVFS in each remote scenario.
RemoteStatVFS(scn) == IF scn = "sftpvfs" THEN StatVFS(0, 512) ELSE NoStatVFS

\* A mutant that never consults seenFiles.
RemoteFileOutcomeNoDedup(name, key, size, flag, dedup, parent, vis, seen, blockSize) ==
    [add |-> TRUE,
     rec |-> FileNode(name, size, estimateDiskUsage(size, blockSize), 0, flag, parent),
     scan |-> FALSE, path |-> <<>>, errs |-> 0, files |-> 1, bytes |-> size,
     vis |-> vis, imap |-> seen]

\* A file node under seenFiles: the first sighting of the canonical path key
\* carries the size, a later one is zero-sized and flagged HARDLINK.
RemoteFileOutcome(name, key, size, flag, dedup, parent, vis, seen, blockSize) ==
    LET loaded == dedup /\ key \in seen
        sz == IF loaded THEN 0 ELSE size
    IN  [add |-> TRUE,
         rec |-> FileNode(name, sz, estimateDiskUsage(sz, blockSize), 0,
                          IF loaded THEN flag \cup {FlagHardlink} ELSE flag, parent),
         scan |-> FALSE, path |-> <<>>, errs |-> 0, files |-> 1, bytes |-> sz,
         vis |-> vis, imap |-> IF dedup THEN seen \cup {key} ELSE seen]

\* The body of the remote loop over entries, after the cancellation check.
RemoteEntry(e, dirPath, parent, scanRoot, opts, vis, seen, blockSize) ==
    IF e.name \in excludeSet THEN Skipped(vis, seen)
    ELSE IF ~opts.hidden /\ IsHidden(e.name) THEN Skipped(vis, seen)
    ELSE IF e.kind = "special" THEN Skipped(vis, seen)
    ELSE IF e.kind = "symlink" /\ opts.follow
         THEN IF e.tgt.kind = "broken" THEN BrokenOutcome(e.name, parent, vis, seen)
              ELSE IF e.tgt.kind = "special" THEN Skipped(vis, seen)
              ELSE IF e.tgt.kind = "dir"
                   THEN DirOutcome(e.name, {FlagSymlink}, e.tgt.dir,
                                   ~isWithinRemote(scanRoot, e.tgt.dir), parent, vis, seen)
              ELSE RemoteFileOutcome(e.name, e.tgt.dir, e.tgt.size, {FlagSymlink}, TRUE,
                                     parent, vis, seen, blockSize)
    ELSE IF e.kind = "symlink"
         THEN RemoteFileOutcome(e.name, <<>>, e.size, {FlagSymlink}, FALSE,
                                parent, vis, seen, blockSize)
    ELSE IF e.kind = "dir"
         THEN DirOutcome(e.name, {}, e.dir, TRUE, parent, vis, seen)
    ELSE RemoteFileOutcome(e.name, Join(dirPath, e.name), e.size, {}, opts.follow,
                           parent, vis, seen, blockSize)

\* scanWithClient up to the call of scanDir: the root exists and is a
\* directory; its node is flagged USAGE_ESTIMATED and its path is claimed.
RemoteScanStart ==
    /\ scPc = "start"
    /\ scPc' = "walk"
    /\ nodes' = (RootId :> DirNode(ScanRoot, {FlagUsageEstimated}, NilNode))
    /\ pub' = "none"
    /\ visitedDirs' = {ScanRoot}
    /\ tasks' = (RootId :> [stack |-> <<Frame(ScanRoot, RootId)>>, st |-> "run"])
    /\ UNCHANGED <<impVars, delVars, expVars, scOpts, ctx, scRet, sem, wg, inodeMap, cnt,
                   aggTodo, opens, progressDone, emitted, chanLen, chanClosed, panicked>>

\* One remote entry: seenFiles (kept in inodeMap) and visitedDirs are
\* consulted, the node is appended and spawnScan starts a goroutine if a
\* semaphore slot is free, and otherwise calls scanDir in this goroutine.
RemoteScanEntry(t) ==
    /\ Running(t)
    /\ Top(t).ph = "entry"
    /\ LET f == Top(t)
           child == Append(f.node, f.i)
           o == RemoteEntry(TheFS[f.dir].entries[f.i], f.dir, f.node, ScanRoot, scOpts,
                            visitedDirs, inodeMap,
                            remoteBlockSize(RemoteStatVFS(scOpts.scn)))
           next == [f EXCEPT !.i = @ + 1, !.ph = "check"]
           spawn == o.scan /\ spawnScan(sem, scOpts.conc) = "go"
       IN  /\ nodes' = IF o.add THEN AddChild(nodes, f.node, child, o.rec) ELSE nodes
           /\ visitedDirs' = o.vis
           /\ inodeMap' = o.imap
           /\ cnt' = [cnt EXCEPT !.errs = @ + o.errs, !.files = @ + o.files,
                                 !.bytes = @ + o.bytes]
           /\ sem' = IF spawn THEN sem + 1 ELSE sem
           /\ wg' = IF spawn THEN wg + 1 ELSE wg
           /\ tasks' =
                IF ~o.scan THEN SetTop(tasks, t, next)
                ELSE IF spawn
                THEN [x \in DOMAIN tasks \cup {child} |->
                        IF x = child THEN [stack |-> <<Frame(o.path, child)>>, st |-> "run"]
                        ELSE IF x = t THEN SetTop(tasks, t, next)[t]
                        ELSE tasks[x]]
                ELSE [tasks EXCEPT ![t].stack = <<Frame(o.path, child), next>> \o Tail(@)]
    /\ UNCHANGED <<impVars, delVars, expVars, coordVars, pubVars, ctx, opens>>

RemoteWalkNext ==
    \/ \E t \in DOMAIN tasks : ScanEnter(t)
    \/ \E t \in DOMAIN tasks : ScanOpen(t)
    \/ \E t \in DOMAIN tasks : ScanCheck(t)
    \/ \E t \in DOMAIN tasks : RemoteScanEntry(t)
    \/ \E t \in DOMAIN tasks : ScanReadEnd(t)
    \/ \E t \in DOMAIN tasks : TaskRelease(t)
    \/ \E t \in DOMAIN tasks : TaskDone(t)

RemoteCoordNext ==
    \/ RemoteScanStart
    \/ WaitWalkers
    \/ CheckAfterWalk
    \/ Aggregate
    \/ StopReporter
    \/ ScanReturn

\* The file sizes the estimate is asked for: around zero, around one and
\* two blocks, and the top of the integer range.
EstimateSizes ==
    {minInt64, -4096, -1, 0, 1, 2, 511, 512, 513, 1023, 1024, 1025, 4095, 4096, 4097,
     8191, 8192, 8193, 100000, maxInt64 - 8192, maxInt64 - 4096, maxInt64 - 4095,
     maxInt64 - 4094, maxInt64 - 512, maxInt64 - 511, maxInt64 - 1, maxInt64}

\* The answers to StatVFS: none, no usable size, a fragment size, a block
\* size only, sizes above maxInt64 and a block as large as the range.
EstimateStats ==
    {NoStatVFS, StatVFS(0, 0), StatVFS(512, 4096), StatVFS(0, 1024), StatVFS(-1, 8192),
     StatVFS(-1, -1), StatVFS(maxInt64, 0)}

EstimateBefore(size, stat) ==
    /\ fs = InitialFS
    /\ delLast = [called |-> FALSE, path |-> <<>>, root |-> <<>>, ok |-> FALSE,
                  before |-> InitialFS]
    /\ UiIdle
    /\ addMu = NoHolder
    /\ addTasks = <<>>
    /\ estArgs = [size |-> size, stat |-> stat]
    /\ estRet = [called |-> FALSE]
    /\ RmIdle

\* blockSize := remoteBlockSize(client, rootPath) of the scan, then
\* estimateDiskUsage(size, blockSize) for a file of the size.
EstimateCall ==
    /\ "size" \in DOMAIN estArgs
    /\ ~estRet.called
    /\ LET blockSize == remoteBlockSize(estArgs.stat) IN
       estRet' = [called |-> TRUE, blockSize |-> blockSize,
                  usage |-> estimateDiskUsage(estArgs.size, blockSize)]
    /\ UNCHANGED <<fs, delLast, uiVars, addMu, addTasks, estArgs, rmVars, expVars, scanVars,
                   impVars>>

\* The sizes an SFTP server reports for the files of one directory: empty,
\* small, one block, and the top of the integer range.
SumSizes == {0, 1, 4096, maxInt64 - 4096, maxInt64}

\* The most files in the directory.
MaxFiles == 4

\* A remote directory /r/d before its scan: sizes are those of its files.
SumBefore(sizes) ==
    /\ fs = InitialFS
    /\ delLast = [called |-> FALSE, path |-> <<>>, root |-> <<>>, ok |-> FALSE,
                  before |-> InitialFS]
    /\ UiIdle
    /\ addMu = NoHolder
    /\ addTasks = <<>>
    /\ estArgs = [sizes |-> sizes, stat |-> NoStatVFS]
    /\ estRet = [called |-> FALSE]
    /\ RmIdle

\* The nodes the remote scanDir appends for the files of d, in order.
RECURSIVE AddFiles(_, _, _, _, _)
AddFiles(ns, d, sizes, i, blockSize) ==
    IF i > Len(sizes) THEN ns
    ELSE AddFiles(AddChild(ns, d, Append(d, i),
                           FileNode(<<"f">>, sizes[i],
                                    estimateDiskUsage(sizes[i], blockSize), 0, {}, d)),
                  d, sizes, i + 1, blockSize)

\* The tree of the scan of /r, which holds the directory d and d the files,
\* and root.UpdateSizeRecursiveContext on it.
SumCall ==
    /\ "sizes" \in DOMAIN estArgs
    /\ ~estRet.called
    /\ LET blockSize == remoteBlockSize(estArgs.stat)
           n0 == (RootId :> DirNode(ScanRoot, {FlagUsageEstimated}, NilNode))
           n1 == AddChild(n0, RootId, <<1>>, DirNode(<<"d">>, {}, RootId))
           n2 == AddFiles(n1, <<1>>, estArgs.sizes, 1, blockSize)
       IN  estRet' = [called |-> TRUE, blockSize |-> blockSize, walked |-> n2,
                      ns |-> UpdateSizeRecursive(n2, PostOrder(n2, RootId))]
    /\ UNCHANGED <<fs, delLast, uiVars, addMu, addTasks, estArgs, rmVars, expVars, scanVars,
                   impVars>>

-----------------------------------------------------------------------------
(***************************************************************************)
(* The ncdu-compatible serialization: ops.ExportJSON's writeDir and         *)
(* ops.ImportJSON's parseDirFromDecoder. A JSON value is [t, v]: an array  *)
(* of values, an object (a function from its keys), a number or a string.  *)
(***************************************************************************)

Arr(items) == [t |-> "arr", v |-> items]
Obj(fields) == [t |-> "obj", v |-> fields]
Num(n) == [t |-> "num", v |-> n]

\* Names that are not valid UTF-8, with what encoding/json writes for them:
\* every invalid byte becomes U+FFFD.
CoercedUTF8 == ("caf<E9>" :> "caf<U+FFFD>")

\* json.Marshal of a string, component by component.
jsonString(s) ==
    [k \in DOMAIN s |-> IF s[k] \in DOMAIN CoercedUTF8 THEN CoercedUTF8[s[k]] ELSE s[k]]

\* The keys json.Marshal(ncduEntry) writes for a false bool or a zero number
\* tagged omitempty: none.
OptionalFields(usage, ino, flag) ==
    (IF usage # 0 THEN ("dsize" :> usage) ELSE << >>) @@
    (IF ino # 0 THEN ("ino" :> ino) ELSE << >>) @@
    (IF FlagHardlink \in flag THEN ("hlnkc" :> TRUE) ELSE << >>) @@
    (IF FlagError \in flag THEN ("read_error" :> TRUE) ELSE << >>) @@
    (IF FlagSymlink \in flag THEN ("symlink" :> TRUE) ELSE << >>) @@
    (IF FlagUsageEstimated \in flag THEN ("usage_estimated" :> TRUE) ELSE << >>)

\* json.Marshal(entry) for a node; a directory's entry leaves Ino zero.
MarshalEntry(n) ==
    Obj(("name" :> jsonString(n.name)) @@ ("asize" :> n.size) @@
        OptionalFields(n.usage, IF n.dir THEN 0 ELSE n.ino, n.flag))

RECURSIVE writeDir(_, _)
RECURSIVE writeChildren(_, _)
writeChildren(ns, ch) ==
    IF ch = <<>> THEN <<>>
    ELSE <<IF ns[Head(ch)].dir THEN writeDir(ns, Head(ch)) ELSE MarshalEntry(ns[Head(ch)])>>
         \o writeChildren(ns, Tail(ch))

\* writeDir: the directory's entry, then its children in order.
writeDir(ns, d) == Arr(<<MarshalEntry(ns[d])>> \o writeChildren(ns, ns[d].ch))

\* exportToWriter: [1, 0, header, root].
exportToWriter(ns) ==
    Arr(<<Num(1), Num(0), Obj(("progname" :> "godu") @@ ("progver" :> "dev")),
          writeDir(ns, RootId)>>)

maxImportDepth == 1000

\* A mutant that refuses the depth maxImportDepth itself.
DepthExceededAtLimit(depth) == depth >= maxImportDepth

\* if depth > maxImportDepth
DepthExceeded(depth) == depth > maxImportDepth

Field(obj, key, default) == IF key \in DOMAIN obj THEN obj[key] ELSE default

\* parseNCDUEntry: the fields present, the zero value for the others.
parseNCDUEntry(obj) ==
    [name |-> Field(obj, "name", <<>>),
     asize |-> Field(obj, "asize", 0),
     dsize |-> Field(obj, "dsize", 0),
     ino |-> Field(obj, "ino", 0),
     flag |-> (IF Field(obj, "hlnkc", FALSE) THEN {FlagHardlink} ELSE {}) \cup
              (IF Field(obj, "read_error", FALSE) THEN {FlagError} ELSE {}) \cup
              (IF Field(obj, "symlink", FALSE) THEN {FlagSymlink} ELSE {}) \cup
              (IF Field(obj, "usage_estimated", FALSE) THEN {FlagUsageEstimated} ELSE {})]

\* A mutant that takes every name.
validateNameAny(name) == TRUE

\* validateName: a single component that is not empty, "." or "..".
validateName(name) == Len(name) = 1 /\ name[1] \notin {"", ".", ".."}

\* validateSizeField.
validateSizeField(value) == value >= 0

\* A mutant that counts a directory's children from its entry object.
firstChildIndexOfEntry == 1 - 1

\* for i := 1; dec.More(); i++
firstChildIndex == 1

\* ImportJSON returning nil and an error; index is the N of
\* "unexpected child element at index N".
Failure(err, index) == [ok |-> FALSE, ns |-> << >>, err |-> err, index |-> index]

ImportFailed == Failure("format", 0)

RECURSIVE parseDirFromDecoder(_, _, _, _, _)
RECURSIVE parseChildren(_, _, _, _, _)

\* The loop of parseDirFromDecoder over the elements after the entry: the
\* i-th becomes child Append(d, i) of d.
parseChildren(items, i, d, depth, ns) ==
    IF items = <<>> THEN [ok |-> TRUE, ns |-> ns]
    ELSE LET c == Append(d, i)
             it == Head(items)
         IN  IF it.t = "arr"
             THEN LET r == parseDirFromDecoder(it, d, c, depth + 1, ns) IN
                  IF ~r.ok THEN r
                  ELSE parseChildren(Tail(items), i + 1, d, depth,
                                     [r.ns EXCEPT ![d].ch = Append(@, c)])
             ELSE IF it.t = "obj"
             THEN LET e == parseNCDUEntry(it.v) IN
                  IF ~validateName(e.name) \/ ~validateSizeField(e.asize)
                     \/ ~validateSizeField(e.dsize)
                  THEN ImportFailed
                  ELSE parseChildren(Tail(items), i + 1, d, depth,
                           AddChild(ns, d, c, FileNode(e.name, e.asize, e.dsize, e.ino,
                                                       e.flag, d)))
             ELSE Failure("unexpected child element", i)

\* parseDirFromDecoder for value val, making node id under parent.
parseDirFromDecoder(val, parent, id, depth, ns) ==
    IF DepthExceeded(depth) THEN Failure("maximum depth", 0)
    ELSE IF val.t # "arr" THEN ImportFailed
    ELSE IF val.v = <<>> THEN ImportFailed
    ELSE IF Head(val.v).t # "obj" THEN ImportFailed
    ELSE LET e == parseNCDUEntry(Head(val.v).v)
             name == IF parent = NilNode THEN CleanFrom(<<>>, e.name) ELSE e.name
             dir == [DirNode(name, e.flag, parent) EXCEPT !.size = e.asize, !.usage = e.dsize]
         IN  IF parent # NilNode /\ ~validateName(e.name) THEN ImportFailed
             ELSE IF ~validateSizeField(e.asize) \/ ~validateSizeField(e.dsize)
             THEN ImportFailed
             ELSE LET r == parseChildren(Tail(val.v), firstChildIndex, id, depth,
                                         ns @@ (id :> dir)) IN
                  IF r.ok THEN [ok |-> TRUE, ns |-> UpdateSize(r.ns, id)] ELSE r

\* ImportJSON: the fourth element of the top-level array is the root.
ImportJSON(doc) ==
    IF doc.t # "arr" \/ Len(doc.v) < 4 THEN ImportFailed
    ELSE LET r == parseDirFromDecoder(doc.v[4], NilNode, RootId, 0, << >>) IN
         IF r.ok THEN [ok |-> TRUE, ns |-> UpdateSize(r.ns, RootId)] ELSE r

-----------------------------------------------------------------------------
(***************************************************************************)
(* ImportJSON reading a document token by token. The document is a chain:  *)
(* [1, 0, {...}, D1] with Dk = [{"name": "d"}, Dk+1] for k < impLevels,    *)
(* and the innermost directory holding impLeaf: the file                   *)
(* {"name": "f", "asize": 1}, the file {"name": ".."}, or nothing.         *)
(***************************************************************************)

\* Largest number of directory levels tried below the limit's neighbourhood.
MaxShallowLevels == 3

\* The numbers of directory levels tried: a few small ones and those around
\* maxImportDepth.
LevelChoices == (1..MaxShallowLevels) \cup ((maxImportDepth - 1)..(maxImportDepth + 2))

\* The name of the file the innermost directory holds.
LeafName == IF impLeaf = "dotdot" THEN <<"..">> ELSE <<"f">>

\* No file is being decoded as a whole.
NoFile == [doc |-> Arr(<<>>), trailing |-> "none"]

NotReturned == Failure("none", 0)

ImpBefore(levels, leaf) ==
    /\ impLevels = levels
    /\ impLeaf = leaf
    /\ impPc = "open"
    /\ impDepth = 0
    /\ impBuilt = 0
    /\ impRet = "none"
    /\ decFile = NoFile
    /\ decOut = NotReturned

ImpIdle == ImpBefore(1, "file")

\* ImportJSON up to its call parseDirFromDecoder(dec, nil, 0, false).
ImportOpen ==
    /\ impPc = "open"
    /\ impPc' = "enter"
    /\ impDepth' = 0
    /\ UNCHANGED <<delVars, expVars, scanVars, decVars, impLevels, impLeaf, impBuilt, impRet>>

\* The top of parseDirFromDecoder: the depth check, then the directory's own
\* entry and its DirNode. An error returns through every caller.
ParseDirEnter ==
    /\ impPc = "enter"
    /\ IF DepthExceeded(impDepth)
       THEN /\ impPc' = "done"
            /\ impRet' = "depth"
            /\ UNCHANGED impBuilt
       ELSE /\ impPc' = "child"
            /\ impBuilt' = impBuilt + 1
            /\ UNCHANGED impRet
    /\ UNCHANGED <<delVars, expVars, scanVars, decVars, impLevels, impLeaf, impDepth>>

\* The loop over children at the directory's one child: '[' calls
\* parseDirFromDecoder(dec, dir, depth+1, true), '{' is a file entry.
ParseChild ==
    /\ impPc = "child"
    /\ IF impDepth + 1 < impLevels
       THEN /\ impPc' = "enter"
            /\ impDepth' = impDepth + 1
            /\ UNCHANGED impRet
       ELSE IF impLeaf # "none" /\ ~validateName(LeafName)
       THEN /\ impPc' = "done"
            /\ impRet' = "format"
            /\ UNCHANGED impDepth
       ELSE /\ impPc' = "close"
            /\ UNCHANGED <<impDepth, impRet>>
    /\ UNCHANGED <<delVars, expVars, scanVars, decVars, impLevels, impLeaf, impBuilt>>

\* dec.More() is false: parseDirFromDecoder returns its directory, which the
\* caller adds to its own; the root goes back to ImportJSON.
ParseDirReturn ==
    /\ impPc = "close"
    /\ IF impDepth > 0
       THEN /\ impDepth' = impDepth - 1
            /\ UNCHANGED impPc
       ELSE /\ impPc' = "finish"
            /\ UNCHANGED impDepth
    /\ UNCHANGED <<delVars, expVars, scanVars, decVars, impLevels, impLeaf, impBuilt, impRet>>

\* root.UpdateSize(); return root, nil
ImportReturn ==
    /\ impPc = "finish"
    /\ impPc' = "done"
    /\ impRet' = "ok"
    /\ UNCHANGED <<delVars, expVars, scanVars, decVars, impLevels, impLeaf, impDepth, impBuilt>>

ImpNext ==
    \/ ImportOpen
    \/ ParseDirEnter
    \/ ParseChild
    \/ ParseDirReturn
    \/ ImportReturn

-----------------------------------------------------------------------------
(***************************************************************************)
(* ImportJSON on whole files: a document and what follows its closing      *)
(* bracket. The documents are built from a root directory array with a few *)
(* children drawn from files, scalars and subdirectories, wrapped in       *)
(* top-level values of several shapes.                                     *)
(***************************************************************************)

Str(s) == [t |-> "str", v |-> s]
Null == [t |-> "null", v |-> 0]

\* Largest number of children of the root directory array.
MaxChildren == 2

Header == Obj(("progname" :> "godu") @@ ("progver" :> "dev"))

\* A directory's entry object, with or without sizes written on it.
DirEntryDoc(name, written) ==
    Obj(("name" :> name) @@ (IF written THEN ("asize" :> 99) @@ ("dsize" :> 77) ELSE << >>))

FileDoc(name, asize, dsize) == Obj(("name" :> name) @@ ("asize" :> asize) @@ ("dsize" :> dsize))

SubdirDoc(name, written, kids) == Arr(<<DirEntryDoc(name, written)>> \o kids)

\* The elements tried after a directory's entry: files of good and bad
\* names ("" is the name without components, "a/b" the one of two),
\* scalars, subdirectories, an empty array.
ChildChoices ==
    << FileDoc(<<"f">>, 1, 4),
       FileDoc(<<"f2">>, 2, 4),
       FileDoc(<<"..">>, 1, 4),
       FileDoc(<<".">>, 1, 4),
       FileDoc(<<>>, 1, 4),
       FileDoc(<<"a", "b">>, 1, 4),
       Num(123),
       Str("x"),
       Null,
       SubdirDoc(<<"s">>, FALSE, <<>>),
       SubdirDoc(<<"s">>, TRUE, <<FileDoc(<<"g">>, 3, 4)>>),
       SubdirDoc(<<"s">>, FALSE, <<FileDoc(<<"g">>, 3, 4), Null>>),
       SubdirDoc(<<"s">>, TRUE, <<SubdirDoc(<<"t">>, TRUE, <<FileDoc(<<"g">>, 3, 4)>>),
                                  FileDoc(<<"f">>, 1, 4), Num(7)>>),
       SubdirDoc(<<"..">>, FALSE, <<>>),
       Arr(<<>>),
       SubdirDoc(<<"s">>, FALSE, <<SubdirDoc(<<"t">>, TRUE, <<FileDoc(<<"g">>, 3, 4)>>)>>) >>

\* The choices of children, as indices into ChildChoices.
ChildPicks == UNION {[1..n -> DOMAIN ChildChoices] : n \in 0..MaxChildren}

RootDoc(name, written, picks) ==
    SubdirDoc(name, written, [k \in DOMAIN picks |-> ChildChoices[picks[k]]])

\* The top-level value of each shape around the root directory array.
TopDoc(shape, root) ==
    IF shape = "four" THEN Arr(<<Num(1), Num(0), Header, root>>)
    ELSE IF shape = "six" THEN Arr(<<Num(1), Num(0), Header, root, Header, Arr(<<Null>>)>>)
    ELSE IF shape = "three" THEN Arr(<<Num(1), Num(0), Header>>)
    ELSE IF shape = "empty" THEN Arr(<<>>)
    ELSE IF shape = "object" THEN Header
    ELSE Num(1)

TopShapes == {"four", "six", "three", "empty", "object", "number"}

\* What follows the top-level array: nothing, whitespace, bytes that are no
\* JSON, another JSON value.
Trailings == {"none", "space", "garbage", "value"}

\* The names given to the root: /tmp/root, and /tmp/../x before Clean.
RootNames == {<<"tmp", "root">>, <<"tmp", "..", "x">>}

\* A mutant that takes whatever follows the document for its end.
AtEOFAlways(trailing) == TRUE

\* dec.Decode(&struct{}{}) == io.EOF: only whitespace is left.
AtEOF(trailing) == trailing \in {"none", "space"}

\* ImportJSON: the document, then dec.Decode(&struct{}{}) must meet io.EOF.
ImportJSONFile(file) ==
    LET r == ImportJSON(file.doc) IN
    IF ~r.ok THEN r
    ELSE IF ~AtEOF(file.trailing) THEN Failure("trailing data", 0)
    ELSE [ok |-> TRUE, ns |-> r.ns, err |-> "", index |-> 0]

DecodeBefore(file) ==
    /\ impLevels = 1
    /\ impLeaf = "file"
    /\ impPc = "open"
    /\ impDepth = 0
    /\ impBuilt = 0
    /\ impRet = "none"
    /\ decFile = file
    /\ decOut = NotReturned

\* ImportJSON(path) on the file.
DecodeCall ==
    /\ decOut = NotReturned
    /\ decOut' = ImportJSONFile(decFile)
    /\ UNCHANGED <<delVars, expVars, scanVars, impLevels, impLeaf, impPc, impDepth, impBuilt,
                   impRet, decFile>>

-----------------------------------------------------------------------------
(***************************************************************************)
(* DirNode.RemoveChild and the delete batch of the interface               *)
(* (App.prepareDelete, App.executeDelete).                                 *)
(***************************************************************************)

\* The index of the first child in ch whose name is name, 0 when none is.
RECURSIVE FirstNamed(_, _, _, _)
FirstNamed(ns, ch, name, i) ==
    IF i > Len(ch) THEN 0
    ELSE IF ns[ch[i]].name = name THEN i
    ELSE FirstNamed(ns, ch, name, i + 1)

\* append(d.Children[:i], d.Children[i+1:]...)
RemoveAt(ch, i) == SubSeq(ch, 1, i - 1) \o SubSeq(ch, i + 1, Len(ch))

\* A mutant of propagateSizeUpdate that stops at the directory itself.
propagateSizeUpdateOnce(ns, node) == UpdateSize(ns, node)

\* propagateSizeUpdate: UpdateSize on node and on every ancestor, upwards.
RECURSIVE propagateSizeUpdate(_, _)
propagateSizeUpdate(ns, node) ==
    IF node = NilNode THEN ns
    ELSE propagateSizeUpdate(UpdateSize(ns, node), ns[node].parent)

\* A mutant of RemoveChild that never finds the child.
RemoveChildNotFound(ns, d, name) == [found |-> FALSE, ns |-> ns]

\* DirNode.RemoveChild: what it returns and the tree after. The detached
\* node stays in ns, as the object stays on the heap.
RemoveChild(ns, d, name) ==
    LET i == FirstNamed(ns, ns[d].ch, name, 1) IN
    IF i = 0 THEN [found |-> FALSE, ns |-> ns]
    ELSE [found |-> TRUE,
          ns |-> propagateSizeUpdate([ns EXCEPT ![d].ch = RemoveAt(@, i)], d)]

\* Goroutines calling AddChild on one directory, and the children each adds.
MaxAdders == 2

MaxAppends == 3

\* A mutant of the mutex that lets every Lock through.
mutexFreeAlways(mu) == TRUE

\* d.mu.Lock() returns only while no goroutine holds the mutex.
mutexFree(mu) == mu = NoHolder

\* n goroutines with k children each for the empty directory "parent";
\* child j of goroutine t is node <<t, j>>.
AddersBefore(n, k) ==
    /\ fs = InitialFS
    /\ delLast = [called |-> FALSE, path |-> <<>>, root |-> <<>>, ok |-> FALSE,
                  before |-> InitialFS]
    /\ uiState = "adding"
    /\ uiTree = (RootId :> DirNode(<<"parent">>, {}, NilNode))
    /\ currentDir = RootId
    /\ markedItems = <<>>
    /\ rmLast = [called |-> FALSE]
    /\ deleteDone = [deleted |-> <<>>, errors |-> 0]
    /\ addMu = NoHolder
    /\ addTasks = [t \in 1..n |-> [all |-> [j \in 1..k |-> <<t, j>>],
                                   todo |-> [j \in 1..k |-> <<t, j>>],
                                   pc |-> "idle", local |-> <<>>]]
    /\ estArgs = <<>>
    /\ estRet = [called |-> FALSE]
    /\ RmIdle

\* d.mu.Lock() of AddChild.
AddLock(t) ==
    /\ addTasks[t].pc = "idle"
    /\ addTasks[t].todo # <<>>
    /\ mutexFree(addMu)
    /\ addMu' = t
    /\ addTasks' = [addTasks EXCEPT ![t].pc = "locked"]
    /\ UNCHANGED <<fs, delLast, uiVars, estArgs, estRet, rmVars, expVars, scanVars, impVars>>

\* append reads the slice d.Children.
AddRead(t) ==
    /\ addTasks[t].pc = "locked"
    /\ addTasks' = [addTasks EXCEPT ![t].pc = "read", ![t].local = uiTree[RootId].ch]
    /\ UNCHANGED <<fs, delLast, uiVars, addMu, estArgs, estRet, rmVars, expVars, scanVars, impVars>>

\* d.Children = append(...): the slice read, with the child after it.
AddWrite(t) ==
    /\ addTasks[t].pc = "read"
    /\ LET c == Head(addTasks[t].todo)
           rec == FileNode(<<"c">>, 1, 4, 0, {}, RootId)
       IN  uiTree' = [x \in DOMAIN uiTree \cup {c} |->
                        IF x = c THEN rec
                        ELSE IF x = RootId
                        THEN [uiTree[x] EXCEPT !.ch = Append(addTasks[t].local, c)]
                        ELSE uiTree[x]]
    /\ addTasks' = [addTasks EXCEPT ![t].pc = "written"]
    /\ UNCHANGED <<fs, delLast, uiState, currentDir, markedItems, rmLast, deleteDone>>
    /\ UNCHANGED <<addMu, estArgs, estRet, rmVars, expVars, scanVars, impVars>>

\* d.mu.Unlock(); AddChild returns and the goroutine goes on to its next child.
AddUnlock(t) ==
    /\ addTasks[t].pc = "written"
    /\ addMu' = NoHolder
    /\ addTasks' = [addTasks EXCEPT ![t].pc = "idle", ![t].todo = Tail(@)]
    /\ UNCHANGED <<fs, delLast, uiVars, estArgs, estRet, rmVars, expVars, scanVars, impVars>>

AddNext ==
    \E t \in DOMAIN addTasks : AddLock(t) \/ AddRead(t) \/ AddWrite(t) \/ AddUnlock(t)

\* A tree as an import can yield it: names repeat within a directory. The
\* root holds f, d, f, e and a second d; the first d holds g and k; k holds
\* h twice; the second d holds g.
RepeatedNamesTree ==
    LET n0 == (RootId :> DirNode(<<"r">>, {}, NilNode))
        n1 == AddChild(n0, RootId, <<1>>, FileNode(<<"f">>, 5, 8, 0, {}, RootId))
        n2 == AddChild(n1, RootId, <<2>>, DirNode(<<"d">>, {}, RootId))
        n3 == AddChild(n2, RootId, <<3>>, FileNode(<<"f">>, 2, 4, 0, {}, RootId))
        n4 == AddChild(n3, RootId, <<4>>, FileNode(<<"e">>, 1, 4, 0, {}, RootId))
        n5 == AddChild(n4, RootId, <<5>>, DirNode(<<"d">>, {}, RootId))
        n6 == AddChild(n5, <<2>>, <<2, 1>>, FileNode(<<"g">>, 3, 4, 0, {}, <<2>>))
        n7 == AddChild(n6, <<2>>, <<2, 2>>, DirNode(<<"k">>, {}, <<2>>))
        n8 == AddChild(n7, <<2, 2>>, <<2, 2, 1>>, FileNode(<<"h">>, 1, 4, 0, {}, <<2, 2>>))
        n9 == AddChild(n8, <<2, 2>>, <<2, 2, 2>>, FileNode(<<"h">>, 7, 8, 0, {}, <<2, 2>>))
        n10 == AddChild(n9, <<5>>, <<5, 1>>, FileNode(<<"g">>, 9, 12, 0, {}, <<5>>))
    IN  UpdateSizeRecursive(n10, PostOrder(n10, RootId))

\* The names RemoveChild is called with; nx names no node.
RemoveNames == {<<"f">>, <<"d">>, <<"e">>, <<"g">>, <<"k">>, <<"h">>, <<"nx">>}

\* The aggregated tree, before any call of RemoveChild.
RemoveBefore ==
    /\ fs = InitialFS
    /\ delLast = [called |-> FALSE, path |-> <<>>, root |-> <<>>, ok |-> FALSE,
                  before |-> InitialFS]
    /\ uiState = "tree"
    /\ uiTree = RepeatedNamesTree
    /\ currentDir = RootId
    /\ markedItems = <<>>
    /\ rmLast = [called |-> FALSE]
    /\ deleteDone = [deleted |-> <<>>, errors |-> 0]
    /\ AuxIdle

\* d.RemoveChild(name) on a directory of the tree.
RemoveChildCall(d, name) ==
    /\ uiState = "tree"
    /\ LET rm == RemoveChild(uiTree, d, name) IN
       /\ uiTree' = rm.ns
       /\ rmLast' = [called |-> TRUE, dir |-> d, name |-> name, ok |-> TRUE,
                     found |-> rm.found, before |-> uiTree]
    /\ UNCHANGED <<fs, delLast, uiState, currentDir, markedItems, deleteDone>>
    /\ UNCHANGED <<auxVars, expVars, scanVars, impVars>>

RemoveNext ==
    \E d \in {x \in DOMAIN uiTree : uiTree[x].dir}, name \in RemoveNames :
        RemoveChildCall(d, name)

\* The tree of a scan of InitialFS from /R that followed symlinks: /R/esc
\* is a directory reached through a symlink that leaves the root, its
\* second symlink /R/d/lo was skipped, /R/in and /R/lk are symlink leaves.
ScannedTree ==
    LET n0 == (RootId :> DirNode(<<"R">>, {}, NilNode))
        n1 == AddChild(n0, RootId, <<1>>, FileNode(<<"f">>, 5, 8, 0, {}, RootId))
        n2 == AddChild(n1, RootId, <<2>>, FileNode(<<"..foo">>, 1, 4, 0, {}, RootId))
        n3 == AddChild(n2, RootId, <<3>>, DirNode(<<"d">>, {}, RootId))
        n4 == AddChild(n3, <<3>>, <<3, 1>>, FileNode(<<"g">>, 3, 4, 0, {}, <<3>>))
        n5 == AddChild(n4, RootId, <<4>>, DirNode(<<"esc">>, {FlagSymlink}, RootId))
        n6 == AddChild(n5, <<4>>, <<4, 1>>, FileNode(<<"s">>, 7, 8, 0, {}, <<4>>))
        n7 == AddChild(n6, RootId, <<5>>, FileNode(<<"lk">>, 7, 8, 0, {FlagSymlink}, RootId))
        n8 == AddChild(n7, RootId, <<6>>, NewBrokenSymlinkNode(<<"br">>, RootId))
        n9 == AddChild(n8, RootId, <<7>>, FileNode(<<"in">>, 0, 0, 0, {FlagSymlink}, RootId))
    IN  UpdateSizeRecursive(n9, PostOrder(n9, RootId))

\* Entries another process removed between the scan and the deletion.
StaleChoices == {{}, {<<"R", "f">>}, {<<"R", "d", "g">>}, {<<"R", "d">>, <<"R", "d", "g">>}}

\* The longest batch tried.
MaxMarked == 2

\* components.ConfirmItem of node c.
ConfirmItem(ns, c) == [name |-> ns[c].name, path |-> buildPath(ns, c)]

\* The batches prepareDelete can make of the children of d: the marked ones
\* in the order the map of marks yields them, or the one under the cursor.
Batches(ns, d) ==
    LET kids == 1..Len(ns[d].ch) IN
    { [k \in 1..Len(pick) |-> ConfirmItem(ns, ns[d].ch[pick[k]])] :
        pick \in { p \in UNION {[1..n -> kids] : n \in 1..MaxMarked} :
                     \A a, b \in DOMAIN p : a # b => p[a] # p[b] } }

\* The tree on screen after a scan of /R, the user in directory d.
UiBefore(gone, d) ==
    /\ fs = [q \in DOMAIN InitialFS |-> IF q \in gone THEN NoEntry ELSE InitialFS[q]]
    /\ delLast = [called |-> FALSE, path |-> <<>>, root |-> <<>>, ok |-> FALSE,
                  before |-> InitialFS]
    /\ uiState = "browsing"
    /\ uiTree = ScannedTree
    /\ currentDir = d
    /\ markedItems = <<>>
    /\ rmLast = [called |-> FALSE]
    /\ deleteDone = [deleted |-> <<>>, errors |-> 0]
    /\ AuxIdle

\* App.prepareDelete.
prepareDelete ==
    /\ uiState = "browsing"
    /\ \E items \in Batches(uiTree, currentDir) : markedItems' = items
    /\ uiState' = "confirm"
    /\ UNCHANGED <<fs, delLast, uiTree, currentDir, rmLast, deleteDone>>
    /\ UNCHANGED <<auxVars, expVars, scanVars, impVars>>

\* The confirming key: executeDelete captures the items and the command
\* starts.
ConfirmYes ==
    /\ uiState = "confirm"
    /\ uiState' = "deleting"
    /\ UNCHANGED <<fs, delLast, uiTree, currentDir, markedItems, rmLast, deleteDone>>
    /\ UNCHANGED <<auxVars, expVars, scanVars, impVars>>

\* One round of the loop of executeDelete.
executeDeleteItem ==
    /\ uiState = "deleting"
    /\ markedItems # <<>>
    /\ LET item == Head(markedItems)
           r == DeleteResult(fs, item.path, buildPath(uiTree, RootId))
           rm == IF r.ok THEN RemoveChild(uiTree, currentDir, item.name)
                 ELSE [found |-> FALSE, ns |-> uiTree]
       IN  /\ fs' = r.fs
           /\ uiTree' = rm.ns
           /\ rmLast' = [called |-> TRUE, dir |-> currentDir, name |-> item.name,
                         ok |-> r.ok, found |-> rm.found, before |-> uiTree]
           /\ deleteDone' = IF r.ok
                            THEN [deleteDone EXCEPT !.deleted = Append(@, item.name)]
                            ELSE [deleteDone EXCEPT !.errors = @ + 1]
    /\ markedItems' = Tail(markedItems)
    /\ UNCHANGED <<delLast, uiState, currentDir>>
    /\ UNCHANGED <<auxVars, expVars, scanVars, impVars>>

\* The command returns DeleteDoneMsg.
executeDeleteReturn ==
    /\ uiState = "deleting"
    /\ markedItems = <<>>
    /\ uiState' = "done"
    /\ UNCHANGED <<fs, delLast, uiTree, currentDir, markedItems, rmLast, deleteDone>>
    /\ UNCHANGED <<auxVars, expVars, scanVars, impVars>>

UiNext == prepareDelete \/ ConfirmYes \/ executeDeleteItem \/ executeDeleteReturn

-----------------------------------------------------------------------------
(***************************************************************************)
(* Specifications.                                                         *)
(***************************************************************************)

NextDelete == DelNext

InitDelete == DelInit /\ ExpIdle /\ ScanIdle /\ ImpIdle

SpecDelete == InitDelete /\ [][NextDelete]_vars

DelIdle ==
    /\ fs = InitialFS
    /\ delLast = [called |-> FALSE, path |-> <<>>, root |-> <<>>, ok |-> FALSE,
                  before |-> InitialFS]
    /\ UiIdle
    /\ AuxIdle

NextExport == ExpNext

InitExport == ExpInit /\ DelIdle /\ ScanIdle /\ ImpIdle

SpecExport == InitExport /\ [][NextExport]_vars
\* Only the hard-link tree has a hidden entry for ShowHidden to act on.
ShowHiddenChoices(scn) == IF scn = "links" THEN BOOLEAN ELSE {FALSE}

ScanInit ==
    \E scn \in {"links", "symdir", "tiny"}, conc \in 1..MaxConc, follow \in BOOLEAN,
       pre \in BOOLEAN :
        \E hidden \in ShowHiddenChoices(scn) :
            ScanBefore(Options(scn, conc, follow, hidden, FALSE, pre))

NextScan == WalkNext \/ CoordNext \/ Cancel

InitScan == ScanInit /\ DelIdle /\ ExpIdle /\ ImpIdle

SpecScan == InitScan /\ [][NextScan]_vars

\* The Go scheduler runs a runnable goroutine; nothing obliges the owner of
\* ctx to cancel.
SpecScanFair == SpecScan /\ WF_vars(WalkNext \/ CoordNext)

ProgressInit ==
    \E scn \in {"tiny", "rootfail"}, conc \in 1..MaxConc, pre \in BOOLEAN :
        ScanBefore(Options(scn, conc, FALSE, FALSE, TRUE, pre))

NextProgress == WalkNext \/ CoordNext \/ Cancel \/ ReporterNext

InitProgress == ProgressInit /\ DelIdle /\ ExpIdle /\ ImpIdle

SpecProgress == InitProgress /\ [][NextProgress]_vars

\* Scans of roots that cannot be read and of the tree of filtered entries.
EdgeInit ==
    \E scn \in {"missing", "notdir", "denied", "rootfail", "filter"}, conc \in 1..MaxConc,
       follow \in BOOLEAN, hidden \in BOOLEAN, pre \in BOOLEAN :
        ScanBefore(Options(scn, conc, follow, hidden, FALSE, pre))

InitEdge == EdgeInit /\ DelIdle /\ ExpIdle /\ ImpIdle

SpecEdge == InitEdge /\ [][NextScan]_vars

\* Imports of chain documents of every depth and leaf tried.
ImportInit ==
    \E levels \in LevelChoices, leaf \in {"file", "dotdot", "none"} : ImpBefore(levels, leaf)

NextImport == ImpNext

InitImport == ImportInit /\ DelIdle /\ ExpIdle /\ ScanIdle

SpecImport == InitImport /\ [][NextImport]_vars

\* Whole files: every choice of children under a well-formed top level, and
\* every top-level shape and trailing around a root with one file.
DecodeInit ==
    \E name \in RootNames, written \in BOOLEAN, picks \in ChildPicks,
       shape \in TopShapes, trailing \in Trailings :
        /\ (shape = "four" /\ trailing = "none") \/ picks = <<1>>
        /\ DecodeBefore([doc |-> TopDoc(shape, RootDoc(name, written, picks)),
                         trailing |-> trailing])

\* Delete batches in every directory of the scanned tree, on the filesystem
\* as scanned and on one that lost entries since.
BatchInit ==
    \E gone \in StaleChoices, d \in {RootId, <<3>>, <<4>>} : UiBefore(gone, d)

NextBatch == UiNext

InitBatch == BatchInit /\ ExpIdle /\ ScanIdle /\ ImpIdle

SpecBatch == InitBatch /\ [][NextBatch]_vars

\* Remote scans of the tree of aliased files, with and without StatVFS.
RemoteInit ==
    \E scn \in {"sftp", "sftpvfs"}, conc \in 1..MaxConc, follow \in BOOLEAN, pre \in BOOLEAN :
        ScanBefore(Options(scn, conc, follow, TRUE, FALSE, pre))

NextRemote == RemoteWalkNext \/ RemoteCoordNext \/ Cancel

InitRemote == RemoteInit /\ DelIdle /\ ExpIdle /\ ImpIdle

SpecRemote == InitRemote /\ [][NextRemote]_vars

NextRemove == RemoveNext

InitRemove == RemoveBefore /\ ExpIdle /\ ScanIdle /\ ImpIdle

SpecRemove == InitRemove /\ [][NextRemove]_vars

AddersInit == \E n \in 1..MaxAdders, k \in 1..MaxAppends : AddersBefore(n, k)

NextAdders == AddNext

InitAdders == AddersInit /\ ExpIdle /\ ScanIdle /\ ImpIdle

SpecAdders == InitAdders /\ [][NextAdders]_vars

\* Walks and decodes: the trees both ways of building one pass through.
TreesInit ==
    \/ /\ \E scn \in {"tiny", "symdir"}, conc \in 1..MaxConc, follow \in BOOLEAN,
              pre \in BOOLEAN :
              ScanBefore(Options(scn, conc, follow, FALSE, FALSE, pre))
       /\ ImpIdle
    \/ /\ DecodeInit
       /\ ScanIdle

\* A walk is the walker's and the coordinator's steps; a decode is one call.
NextTrees ==
    \/ decFile = NoFile /\ WalkNext
    \/ decFile = NoFile /\ CoordNext
    \/ decFile = NoFile /\ Cancel
    \/ decFile # NoFile /\ DecodeCall

InitTrees == TreesInit /\ DelIdle /\ ExpIdle

SpecTrees == InitTrees /\ [][NextTrees]_vars

EstimateInit == \E size \in EstimateSizes, stat \in EstimateStats : EstimateBefore(size, stat)

NextEstimate == EstimateCall

InitEstimate == EstimateInit /\ ExpIdle /\ ScanIdle /\ ImpIdle

SpecEstimate == InitEstimate /\ [][NextEstimate]_vars

SumInit == \E n \in 1..MaxFiles : \E sizes \in [1..n -> SumSizes] : SumBefore(sizes)

NextSum == SumCall

InitSum == SumInit /\ ExpIdle /\ ScanIdle /\ ImpIdle

SpecSum == InitSum /\ [][NextSum]_vars

IsRemote == scOpts.scn \in {"sftp", "sftpvfs", "sftpreentry"}

\* Local walks of the trees with hardlinks, with symlinked directories and
\* with a directory entered twice, and remote walks of the tree of aliases
\* and of the directory entered twice.
WalksInit ==
    \E scn \in {"links", "symdir", "reentry", "sftp", "sftpreentry"}, conc \in 1..MaxConc,
       follow \in BOOLEAN, pre \in BOOLEAN :
        ScanBefore(Options(scn, conc, follow, scn = "sftp", FALSE, pre))

\* The local scanner's steps on a local tree, the remote scanner's on a
\* remote one.
NextWalks ==
    \/ ~IsRemote /\ WalkNext
    \/ ~IsRemote /\ CoordNext
    \/ IsRemote /\ RemoteWalkNext
    \/ IsRemote /\ RemoteCoordNext
    \/ Cancel

InitWalks == WalksInit /\ DelIdle /\ ExpIdle /\ ImpIdle

SpecWalks == InitWalks /\ [][NextWalks]_vars

\* Local walks of the trees with symlinked directories and with a directory
\* entered twice, cancelled at any moment or never.
CancelInit ==
    \E scn \in {"symdir", "reentry"}, conc \in 1..MaxConc, pre \in BOOLEAN :
        ScanBefore(Options(scn, conc, TRUE, FALSE, FALSE, pre))

InitCancel == CancelInit /\ DelIdle /\ ExpIdle /\ ImpIdle

SpecCancel == InitCancel /\ [][NextScan]_vars /\ WF_vars(WalkNext \/ CoordNext)

NextDecode == DecodeCall

InitDecode == DecodeInit /\ DelIdle /\ ExpIdle /\ ScanIdle

SpecDecode == InitDecode /\ [][NextDecode]_vars


-----------------------------------------------------------------------------
(***************************************************************************)
(* The recursive removal of internal/ops/delete_resolved_unix.go, one      *)
(* system call at a time, beside an actor that replaces directories with   *)
(* symlinks.  A directory is named by its identity, which a descriptor     *)
(* keeps when the name it was opened under is replaced; rmFs maps each     *)
(* directory to its entries [name, kind, ino, mode] in ReadDir order.      *)
(***************************************************************************)

\* Directories the concurrent actor may replace during one removal.
MaxSwaps == 1

NoDirent == [name |-> "", kind |-> "none", ino |-> "", mode |-> "ok"]
RmFile(name) == [name |-> name, kind |-> "file", ino |-> "", mode |-> "ok"]
RmDir(name, ino) == [name |-> name, kind |-> "dir", ino |-> ino, mode |-> "ok"]
RmLink(name, to) == [name |-> name, kind |-> "link", ino |-> to, mode |-> "ok"]

\* The canonical parent P holds the target t (directory T) and a sibling;
\* T holds a, d (directory D) and z; D holds b, e (directory E) and y; E
\* holds c.  Directory O, with S inside, lies outside the target.
RemovalTree ==
    [d \in {"P", "T", "D", "E", "O", "S"} |->
        CASE d = "P" -> <<RmDir("t", "T"), RmFile("keep")>>
          [] d = "T" -> <<RmFile("a"), RmDir("d", "D"), RmFile("z")>>
          [] d = "D" -> <<RmFile("b"), RmDir("e", "E"), RmFile("y")>>
          [] d = "E" -> <<RmFile("c")>>
          [] d = "O" -> <<RmFile("secret"), RmDir("sub", "S")>>
          [] d = "S" -> <<RmFile("deep")>>]

\* The directories of the target's subtree and the directories outside it.
RmSubtree == {"T", "D", "E"}
RmOutside == {"O", "S"}

\* The one entry the system refuses to remove, open or read, if any: a mode
\* EACCES or EPERM is the errno of unlinking it, "noopen" and "noread" make
\* opening or reading the directory fail, "normdir" its final removal.
RmFailures ==
    {<<"", "", "ok">>, <<"T", "a", "EACCES">>, <<"D", "b", "EPERM">>, <<"E", "c", "EACCES">>,
     <<"D", "y", "EACCES">>, <<"T", "d", "noopen">>, <<"D", "e", "noread">>,
     <<"D", "e", "normdir">>}

RemovalFS(fail) ==
    [d \in DOMAIN RemovalTree |->
        [k \in 1..Len(RemovalTree[d]) |->
            IF d = fail[1] /\ RemovalTree[d][k].name = fail[2]
            THEN [RemovalTree[d][k] EXCEPT !.mode = fail[3]]
            ELSE RemovalTree[d][k]]]

\* The entry called name of directory dir, NoDirent when there is none.
Dirent(f, dir, name) ==
    IF \E k \in 1..Len(f[dir]) : f[dir][k].name = name
    THEN f[dir][CHOOSE k \in 1..Len(f[dir]) : f[dir][k].name = name]
    ELSE NoDirent

\* Directory dir without its entry called name.
Unlinked(f, dir, name) ==
    [f EXCEPT ![dir] = SelectSeq(f[dir], LAMBDA e : e.name # name)]

\* unix.Unlinkat(fd, name, 0): the errno, "" on success.
unlinkatErr(f, fd, name) ==
    LET e == Dirent(f, fd, name) IN
    CASE e.kind = "none" -> "ENOENT"
      [] e.kind = "dir" -> "EISDIR"
      [] e.mode \in {"EACCES", "EPERM"} -> e.mode
      [] OTHER -> ""

\* unix.Unlinkat(fd, name, AT_REMOVEDIR): the errno, "" on success.
rmdirErr(f, fd, name) ==
    LET e == Dirent(f, fd, name) IN
    CASE e.kind = "none" -> "ENOENT"
      [] e.kind # "dir" -> "ENOTDIR"
      [] e.mode = "normdir" -> "EACCES"
      [] f[e.ino] # <<>> -> "ENOTEMPTY"
      [] OTHER -> ""

\* An open that follows a symlink in the last component.
openatFollowing(f, fd, name, linkErr) ==
    LET e == Dirent(f, fd, name) IN
    CASE e.kind = "none" -> [err |-> "ENOENT", fd |-> ""]
      [] e.kind = "file" -> [err |-> "ENOTDIR", fd |-> ""]
      [] e.kind = "dir" /\ e.mode = "noopen" -> [err |-> "EACCES", fd |-> ""]
      [] OTHER -> [err |-> "", fd |-> e.ino]

\* unix.Openat(fd, name, O_RDONLY|O_DIRECTORY|O_NOFOLLOW|O_CLOEXEC): [err, fd].
\* On a symlink the errno is linkErr, ENOTDIR or ELOOP by platform.
openat(f, fd, name, linkErr) ==
    LET e == Dirent(f, fd, name) IN
    CASE e.kind = "none" -> [err |-> "ENOENT", fd |-> ""]
      [] e.kind = "file" -> [err |-> "ENOTDIR", fd |-> ""]
      [] e.kind = "link" -> [err |-> linkErr, fd |-> ""]
      [] e.kind = "dir" /\ e.mode = "noopen" -> [err |-> "EACCES", fd |-> ""]
      [] OTHER -> [err |-> "", fd |-> e.ino]

\* The names childDir.ReadDir(-1) returns.
ReadDirNames(f, dir) == [k \in 1..Len(f[dir]) |-> f[dir][k].name]

\* The untouched variables of every step of the removal.
rmOthers == <<fs, delLast, uiVars, addMu, addTasks, estArgs, estRet, expVars, scanVars, impVars>>

\* The state when Delete has passed its boundary check on P/t.
RemovalBefore(fail) ==
    /\ fs = InitialFS
    /\ delLast = [called |-> FALSE, path |-> <<>>, root |-> <<>>, ok |-> FALSE,
                  before |-> InitialFS]
    /\ UiIdle
    /\ addMu = NoHolder
    /\ addTasks = <<>>
    /\ estArgs = <<>>
    /\ estRet = [called |-> FALSE]
    /\ rmFs = RemovalFS(fail)
    /\ rmStack = <<>>
    /\ rmLog = {}
    /\ rmRet = [st |-> "none"]
    /\ rmSwaps = 0

\* A call deleteAt(fd, name) at its first statement.
RmFrame(fd, name) ==
    [fd |-> fd, name |-> name, pc |-> "unlink", child |-> "", ents |-> <<>>, i |-> 1]

\* Delete calls deleteResolvedPath(realParent, base): the parent is opened
\* and deleteAt(parentFD, baseName) begins.
deleteResolvedPath ==
    /\ rmRet.st = "none"
    /\ rmFs # <<>>
    /\ rmStack' = <<RmFrame("P", "t")>>
    /\ rmRet' = [st |-> "running"]
    /\ UNCHANGED <<rmFs, rmLog, rmSwaps, rmOthers>>

RmTop == Head(rmStack)

\* (directory, name) of the calls in progress, outermost first.
RmPath(st) == [k \in 1..Len(st) |-> <<st[Len(st) + 1 - k].fd, st[Len(st) + 1 - k].name>>]

\* return nil: the caller's loop goes on to its next entry, and
\* deleteResolvedPath returns nil when the outermost call returns.
ReturnNil ==
    LET rest == Tail(rmStack) IN
    IF rest = <<>>
    THEN /\ rmStack' = <<>>
         /\ rmRet' = [st |-> "ok"]
    ELSE /\ rmStack' = <<[Head(rest) EXCEPT !.i = @ + 1]>> \o Tail(rest)
         /\ UNCHANGED rmRet

\* An error that is noted while the caller's loop goes on.
ReturnErrGoesOn(errno) ==
    /\ rmStack' = IF Tail(rmStack) = <<>> THEN <<>>
                  ELSE <<[Head(Tail(rmStack)) EXCEPT !.i = @ + 1]>> \o Tail(Tail(rmStack))
    /\ rmRet' = [st |-> "err", errno |-> errno, at |-> RmPath(rmStack)]

\* return err: every caller closes its directory and returns the error.
ReturnErr(errno) ==
    /\ rmStack' = <<>>
    /\ rmRet' = [st |-> "err", errno |-> errno, at |-> RmPath(rmStack)]

RmGoto(pc) == rmStack' = <<[RmTop EXCEPT !.pc = pc]>> \o Tail(rmStack)

\* The unlink of (fd, name) has succeeded.
RmRemoved(fd, name) ==
    /\ rmFs' = Unlinked(rmFs, fd, name)
    /\ rmLog' = rmLog \cup {<<fd, name, Dirent(rmFs, fd, name).kind>>}

\* unix.Unlinkat(parentFD, name, 0), the fast path.
UnlinkFirst ==
    /\ rmStack # <<>> /\ RmTop.pc = "unlink"
    /\ LET err == unlinkatErr(rmFs, RmTop.fd, RmTop.name) IN
       CASE err = "" -> RmRemoved(RmTop.fd, RmTop.name) /\ ReturnNil
         [] err \in {"EISDIR", "EPERM"} -> RmGoto("open") /\ UNCHANGED <<rmFs, rmLog, rmRet>>
         [] err = "ENOENT" -> ReturnErr("ErrNotExist") /\ UNCHANGED <<rmFs, rmLog>>
         [] OTHER -> ReturnErr(err) /\ UNCHANGED <<rmFs, rmLog>>
    /\ UNCHANGED <<rmSwaps, rmOthers>>

\* unix.Openat(parentFD, name, ...|O_NOFOLLOW).
OpenChild ==
    /\ rmStack # <<>> /\ RmTop.pc = "open"
    /\ \E linkErr \in {"ENOTDIR", "ELOOP"} :
        LET r == openat(rmFs, RmTop.fd, RmTop.name, linkErr) IN
        CASE r.err = "" ->
                 /\ rmStack' = <<[RmTop EXCEPT !.pc = "read", !.child = r.fd]>> \o Tail(rmStack)
                 /\ UNCHANGED rmRet
          [] r.err = "ENOENT" -> ReturnErr("ErrNotExist")
          [] r.err = "ENOTDIR" -> RmGoto("retry") /\ UNCHANGED rmRet
          [] OTHER -> ReturnErr(r.err)
    /\ UNCHANGED <<rmFs, rmLog, rmSwaps, rmOthers>>

\* The entry changed type: unix.Unlinkat(parentFD, name, 0) once more.
RetryUnlink ==
    /\ rmStack # <<>> /\ RmTop.pc = "retry"
    /\ LET err == unlinkatErr(rmFs, RmTop.fd, RmTop.name) IN
       CASE err = "" -> RmRemoved(RmTop.fd, RmTop.name) /\ ReturnNil
         [] err = "ENOENT" -> ReturnErr("ErrNotExist") /\ UNCHANGED <<rmFs, rmLog>>
         [] OTHER -> ReturnErr(err) /\ UNCHANGED <<rmFs, rmLog>>
    /\ UNCHANGED <<rmSwaps, rmOthers>>

\* childDir.ReadDir(-1).
ReadChild ==
    /\ rmStack # <<>> /\ RmTop.pc = "read"
    /\ IF \E p \in DOMAIN rmFs : \E k \in 1..Len(rmFs[p]) :
            rmFs[p][k].ino = RmTop.child /\ rmFs[p][k].mode = "noread"
       THEN ReturnErr("EIO")
       ELSE /\ rmStack' = <<[RmTop EXCEPT !.pc = "loop",
                                          !.ents = ReadDirNames(rmFs, RmTop.child)]>>
                          \o Tail(rmStack)
            /\ UNCHANGED rmRet
    /\ UNCHANGED <<rmFs, rmLog, rmSwaps, rmOthers>>

\* for _, entry := range entries: deleteAt(childFD, entry.Name()); after the
\* last entry childDir.Close().
NextEntry ==
    /\ rmStack # <<>> /\ RmTop.pc = "loop"
    /\ IF RmTop.i <= Len(RmTop.ents)
       THEN rmStack' = <<RmFrame(RmTop.child, RmTop.ents[RmTop.i])>> \o rmStack
       ELSE RmGoto("rmdir")
    /\ UNCHANGED <<rmFs, rmLog, rmRet, rmSwaps, rmOthers>>

\* unix.Unlinkat(parentFD, name, AT_REMOVEDIR).
RemoveDir ==
    /\ rmStack # <<>> /\ RmTop.pc = "rmdir"
    /\ LET err == rmdirErr(rmFs, RmTop.fd, RmTop.name) IN
       CASE err = "" -> RmRemoved(RmTop.fd, RmTop.name) /\ ReturnNil
         [] err = "ENOENT" -> ReturnErr("ErrNotExist") /\ UNCHANGED <<rmFs, rmLog>>
         [] OTHER -> ReturnErr(err) /\ UNCHANGED <<rmFs, rmLog>>
    /\ UNCHANGED <<rmSwaps, rmOthers>>

\* The concurrent actor replaces a directory inside the target, or the target
\* itself, with a symlink to the outside directory O; the directory keeps its
\* identity and its entries.
Swap ==
    /\ rmRet.st \in {"none", "running"}
    /\ rmFs # <<>>
    /\ rmSwaps < MaxSwaps
    /\ \E d \in RmSubtree \cup {"P"} : \E k \in 1..Len(rmFs[d]) :
        /\ rmFs[d][k].kind = "dir"
        /\ rmFs[d][k].ino \in RmSubtree
        /\ rmFs' = [rmFs EXCEPT ![d][k] = RmLink(rmFs[d][k].name, "O")]
    /\ rmSwaps' = rmSwaps + 1
    /\ UNCHANGED <<rmStack, rmLog, rmRet, rmOthers>>

deleteAt == UnlinkFirst \/ OpenChild \/ RetryUnlink \/ ReadChild \/ NextEntry \/ RemoveDir

RemovalInit == \E fail \in RmFailures : RemovalBefore(fail)

NextRemoval == deleteResolvedPath \/ deleteAt \/ Swap

InitRemoval == RemovalInit /\ ExpIdle /\ ScanIdle /\ ImpIdle

SpecRemoval == InitRemoval /\ [][NextRemoval]_vars


-----------------------------------------------------------------------------
(***************************************************************************)
(* isWithin and isWithinRemote on path strings.  A path string is a        *)
(* sequence of characters; "/" separates its elements.                     *)
(***************************************************************************)

\* Most elements of a path handed to isWithin.
MaxElems == 2

\* The names tried: r, rm (which r is a string prefix of), s, ..f (a
\* name that begins with two dots) and the element "..".
PathElems == {<<"r">>, <<"r", "m">>, <<"s">>, <<".", ".", "f">>, <<".", ".">>}

HasPrefix(s, prefix) == Len(prefix) <= Len(s) /\ SubSeq(s, 1, Len(prefix)) = prefix

HasSuffix(s, suffix) ==
    Len(suffix) <= Len(s) /\ SubSeq(s, Len(s) - Len(suffix) + 1, Len(s)) = suffix

\* The elements joined by separators.
RECURSIVE JoinElems(_)
JoinElems(es) ==
    IF es = <<>> THEN <<>>
    ELSE IF Len(es) = 1 THEN es[1]
    ELSE es[1] \o <<"/">> \o JoinElems(Tail(es))

\* The absolute path string of the elements.
PathString(es) == <<"/">> \o JoinElems(es)

\* The elements of a path string between its separators, empty ones too.
RECURSIVE SplitElems(_, _)
SplitElems(s, cur) ==
    IF s = <<>> THEN <<cur>>
    ELSE IF Head(s) = "/" THEN <<cur>> \o SplitElems(Tail(s), <<>>)
    ELSE SplitElems(Tail(s), Append(cur, Head(s)))

\* Clean of a rooted path, element by element: empty and "." elements are
\* dropped, ".." removes the element before it and is dropped at the root.
RECURSIVE CleanElems(_, _)
CleanElems(done, rest) ==
    IF rest = <<>> THEN done
    ELSE IF Head(rest) \in {<<>>, <<".">>} THEN CleanElems(done, Tail(rest))
    ELSE IF Head(rest) = <<".", ".">>
         THEN CleanElems(IF done = <<>> THEN <<>> ELSE SubSeq(done, 1, Len(done) - 1),
                         Tail(rest))
         ELSE CleanElems(Append(done, Head(rest)), Tail(rest))

\* path.Clean and filepath.Clean of an absolute path string.
CleanString(s) == PathString(CleanElems(<<>>, SplitElems(s, <<>>)))

\* The elements of a clean absolute path string.
ElemsOf(s) == IF s = <<"/">> THEN <<>> ELSE SplitElems(Tail(s), <<>>)

\* filepath.Rel(basepath, targpath) of absolute paths: "." when the cleaned
\* paths are equal, else ".." for each element of base after the common
\* elements, then the remaining elements of targ.
RelString(basepath, targpath) ==
    LET base == CleanString(basepath)
        targ == CleanString(targpath)
        n == CommonLen(ElemsOf(base), ElemsOf(targ))
        ups == [i \in 1..(Len(ElemsOf(base)) - n) |-> <<".", ".">>]
    IN  IF targ = base THEN <<".">>
        ELSE JoinElems(ups \o SubSeq(ElemsOf(targ), n + 1, Len(ElemsOf(targ))))

\* isWithin of parallel.go on path strings.
isWithinString(root, target) ==
    LET rel == RelString(root, target) IN
    IF rel = <<".">> THEN TRUE
    ELSE rel # <<".", ".">> /\ ~HasPrefix(rel, <<".", ".", "/">>)

\* A prefix test against the root without a separator after it.
isWithinRemoteBare(root, target) ==
    LET r == CleanString(root)
        t == CleanString(target)
    IN  IF r = t THEN TRUE ELSE HasPrefix(t, r)

\* isWithinRemote on path strings.
isWithinRemoteString(root, target) ==
    LET r == CleanString(root)
        t == CleanString(target)
        prefix == IF HasSuffix(r, <<"/">>) THEN r ELSE r \o <<"/">>
    IN  IF r = t THEN TRUE ELSE HasPrefix(t, prefix)

\* A root and a target, given by their elements, before the two calls.
WithinBefore(root, target) ==
    /\ fs = InitialFS
    /\ delLast = [called |-> FALSE, path |-> <<>>, root |-> <<>>, ok |-> FALSE,
                  before |-> InitialFS]
    /\ UiIdle
    /\ addMu = NoHolder
    /\ addTasks = <<>>
    /\ estArgs = [root |-> root, target |-> target]
    /\ estRet = [called |-> FALSE]
    /\ RmIdle

\* isWithin(root, target) and isWithinRemote(root, target) of the two strings.
WithinCall ==
    /\ "root" \in DOMAIN estArgs
    /\ ~estRet.called
    /\ estRet' = [called |-> TRUE,
                  local |-> isWithinString(PathString(estArgs.root),
                                           PathString(estArgs.target)),
                  remote |-> isWithinRemoteString(PathString(estArgs.root),
                                                  PathString(estArgs.target))]
    /\ UNCHANGED <<fs, delLast, uiVars, addMu, addTasks, estArgs, rmVars, expVars, scanVars,
                   impVars>>

PathsTried == UNION {[1..n -> PathElems] : n \in 0..MaxElems}

WithinInit == \E root \in PathsTried, target \in PathsTried : WithinBefore(root, target)

NextWithin == WithinCall

InitWithin == WithinInit /\ ExpIdle /\ ScanIdle /\ ImpIdle

SpecWithin == InitWithin /\ [][NextWithin]_vars

-----------------------------------------------------------------------------
(***************************************************************************)
(* Deletion: properties.                                                   *)
(***************************************************************************)

\* The canonical scan root of the last Delete call.
DelRoot == EvalSymlinks(delLast.before, Abs(delLast.root))

\* The canonical parent of the last Delete call's target.
DelParent == EvalSymlinks(delLast.before, Dir(Abs(delLast.path)))

\* (canonical parent of p)/(last component of p).
DelTarget == DelParent.path \o Base(Abs(delLast.path))

DelBeneath == DelRoot.ok /\ DelParent.ok /\ IsStrictPrefix(DelRoot.path, DelTarget)

\* C1: Delete changes the filesystem only if (canonical parent)/(last
\* component) lies strictly beneath the canonical root, every entry it removes
\* lies strictly beneath the canonical root, and when the target is the root,
\* outside it, escapes via ".." or through a symlinked directory, Delete
\* returns an error and the filesystem is exactly as before.
DeleteStaysInsideRoot ==
    delLast.called =>
        /\ (fs # delLast.before => DelBeneath)
        /\ \A q \in DOMAIN fs :
              fs[q] # delLast.before[q] =>
                  /\ fs[q] = NoEntry
                  /\ IsStrictPrefix(DelRoot.path, q)
                  /\ IsPrefix(DelTarget, q)
        /\ (~DelBeneath => ~delLast.ok /\ fs = delLast.before)

\* A delete through the symlinked directory /R/esc -> /O was refused.
DeleteThroughSymlinkDirRefused ==
    /\ delLast.called
    /\ delLast.path = <<"R", "esc", "s">>
    /\ delLast.root = <<"R">>
    /\ ~delLast.ok
    /\ Exists(fs, <<"O", "s">>)

\* C2: when the final component of the target is a symlink inside the root,
\* valid or broken, Delete succeeds and removes that link and nothing else:
\* what the link points to is neither removed nor changed.
DeleteRemovesLinkNotTarget ==
    (/\ delLast.called
     /\ DelBeneath
     /\ Exists(delLast.before, DelTarget)
     /\ delLast.before[DelTarget].kind = "link")
    => /\ delLast.ok
       /\ fs = [delLast.before EXCEPT ![DelTarget] = NoEntry]

\* The symlink /R/in -> /R/d was deleted while /R/d/g existed, and the broken
\* symlink /R/br was deleted before it.
DeletedLinkToLiveDirectory ==
    /\ delLast.called
    /\ delLast.path = <<"R", "in">>
    /\ delLast.ok
    /\ delLast.before[<<"R", "in">>].kind = "link"
    /\ Exists(fs, <<"R", "d", "g">>)
    /\ ~Exists(fs, <<"R", "br">>)

-----------------------------------------------------------------------------
(***************************************************************************)
(* Export: properties.                                                     *)
(***************************************************************************)

\* C3: at every step of ExportJSON to a file, and after it returned, the
\* destination is absent, the untouched pre-existing file or the complete new
\* export; once ExportJSON returned, with an error or without, no temp file is
\* left, and a return without error left the complete export at the
\* destination.
ExportNeverPartial ==
    /\ \/ expDest = AbsentFile
       \/ (expDest = OldFile /\ expDest0 = OldFile)
       \/ expDest = ExportFile(DocLen)
    /\ (expRet # "none" => ~expTmp.exists)
    /\ (expRet = "ok" => expDest = ExportFile(DocLen))

\* ExportJSON returned an error because the final flush of the buffered writer
\* failed, over a pre-existing destination, which is intact.
ExportFailedMidWrite ==
    /\ expRet = "err"
    /\ expDest0 = OldFile
    /\ expPos = DocLen
    /\ expBuf > 0
    /\ expDest = OldFile

-----------------------------------------------------------------------------
(***************************************************************************)
(* Properties of the walk and of the aggregation.                          *)
(***************************************************************************)

RECURSIVE FieldSum(_, _, _)
FieldSum(ns, ids, field) ==
    IF ids = {} THEN 0
    ELSE LET n == CHOOSE x \in ids : TRUE IN ns[n][field] + FieldSum(ns, ids \ {n}, field)

ChildrenOf(ns, d) == {ns[d].ch[k] : k \in 1..Len(ns[d].ch)}

Descendants(ns, d) == {n \in DOMAIN ns : IsStrictPrefix(d, n)}

Dirs(ns) == {d \in DOMAIN ns : ns[d].dir}

Files(ns) == {n \in DOMAIN ns : ~ns[n].dir}

Aggregated(ns, d) ==
    /\ ns[d].size = FieldSum(ns, ChildrenOf(ns, d), "size")
    /\ ns[d].usage = FieldSum(ns, ChildrenOf(ns, d), "usage")
    /\ ns[d].items = Cardinality(ChildrenOf(ns, d))
                     + FieldSum(ns, ChildrenOf(ns, d) \cap Dirs(ns), "items")
    /\ ns[d].items = Cardinality(Descendants(ns, d))

\* C5: in the tree a successful scan returns, every directory's size and usage
\* are the sums over its children, its item count is the sum over its children
\* of one plus a child directory's item count, hence its number of
\* descendants, and the root's size is the sum of the sizes of all files.
SuccessfulScanIsAggregated ==
    scRet = "ok" =>
        /\ \A d \in Dirs(nodes) : Aggregated(nodes, d)
        /\ nodes[RootId].size = FieldSum(nodes, Files(nodes), "size")
        /\ nodes[RootId].usage = FieldSum(nodes, Files(nodes), "usage")

\* A successful scan of the hard-link tree with everything shown: sizes reach
\* the root through two levels of directories.
AggregatedNestedTree ==
    /\ scRet = "ok"
    /\ scOpts.scn = "links"
    /\ scOpts.hidden
    /\ nodes[RootId].items = 9
    /\ nodes[RootId].size = 9
    /\ nodes[<<3>>].items = 3
    /\ nodes[<<3, 2>>].items = 1

\* What stat reports for the inodes of the walked filesystem: <<inode, size,
\* usage>> of every entry, and of the file behind every symlink.
InodeStats(fsys) ==
    UNION {UNION {{<<fsys[d].entries[k].ino, fsys[d].entries[k].size,
                     fsys[d].entries[k].usage>>,
                   <<fsys[d].entries[k].tgt.ino, fsys[d].entries[k].tgt.size,
                     fsys[d].entries[k].tgt.usage>>} :
                  k \in 1..Len(fsys[d].entries)} :
           d \in DOMAIN fsys}

SameInode(ns, i) == {n \in Files(ns) : ns[n].ino = i}

Carriers(ns, i) == {n \in SameInode(ns, i) : FlagHardlink \notin ns[n].flag}

\* C6: at every moment of every interleaving of the walker's goroutines, for
\* each inode identity met so far exactly one file node carries the file's
\* real size and usage, and every other node of that identity is flagged
\* HARDLINK with size = usage = 0.
OneCarrierPerInode ==
    \A i \in {nodes[n].ino : n \in Files(nodes)} \ {0} :
        /\ Cardinality(Carriers(nodes, i)) = 1
        /\ \A n \in Carriers(nodes, i) :
              <<i, nodes[n].size, nodes[n].usage>> \in InodeStats(TheFS)
        /\ \A n \in SameInode(nodes, i) \ Carriers(nodes, i) :
              nodes[n].size = 0 /\ nodes[n].usage = 0

\* Following symlinks with two walkers: the symlink /r/a/l was met before its
\* target /r/f1 and carries the size, and two of the three hard links of
\* inode 2 are zero-sized.
SymlinkCarriesBeforeTarget ==
    /\ scRet = "ok"
    /\ scOpts.scn = "links"
    /\ scOpts.follow
    /\ nodes[<<1, 2>>].size = 3
    /\ FlagHardlink \in nodes[<<2>>].flag
    /\ Cardinality(SameInode(nodes, 2) \ Carriers(nodes, 2)) = 2

\* The goroutines that have a directory open and are reading it.
ScanningTasks ==
    {t \in DOMAIN tasks : Running(t) /\ Top(t).ph \in {"check", "entry"}}

\* C7: at every moment at most opts.Concurrency directory scans execute in
\* parallel, the caller's goroutine included.
ParallelScansWithinConcurrency == Cardinality(ScanningTasks) <= scOpts.conc

\* The frames of scanDir calls that have not started yet, as <<task, path>>.
PendingScans(ts) ==
    UNION {{<<t, ts[t].stack[k].dir>> :
              k \in {j \in 1..Len(ts[t].stack) : ts[t].stack[j].ph = "enter"}} :
           t \in DOMAIN ts}

\* A step that schedules the scan of a directory starts that scan somewhere at
\* once, and on a goroutine that existed before if no slot was free.
SchedulesWithoutBlocking ==
    \A p \in visitedDirs' \ visitedDirs :
        /\ \E t \in DOMAIN tasks' : <<t, p>> \in PendingScans(tasks')
        /\ (scPc = "walk" /\ sem = scOpts.conc) =>
              /\ DOMAIN tasks' = DOMAIN tasks
              /\ sem' = sem
              /\ \E t \in DOMAIN tasks : <<t, p>> \in PendingScans(tasks') \ PendingScans(tasks)

WalkersFinished ==
    /\ DOMAIN tasks = {RootId}
    /\ tasks[RootId].stack = <<>>
    /\ wg = 0
    /\ sem = 0

\* C8: scheduling a child scan never blocks (with no free slot the child is
\* scanned on the scheduling goroutine), the scan is never stuck before it
\* returns, and Scan eventually returns with every walker goroutine finished.
ScanNeverBlocksAndReturns ==
    /\ [][SchedulesWithoutBlocking]_vars
    /\ [](scPc # "returned" => ENABLED (WalkNext \/ CoordNext))
    /\ <>(scPc = "returned" /\ WalkersFinished)

\* Following symlinks through the cycle /r/out -> /o -> /r/d -> /o with the
\* only slot taken: the caller's goroutine is itself reading /o, called from
\* its scan of /r.
CycleScannedSynchronously ==
    /\ scPc = "walk"
    /\ scOpts.scn = "symdir"
    /\ scOpts.follow
    /\ sem = scOpts.conc
    /\ Len(tasks[RootId].stack) = 2
    /\ Top(RootId).dir = <<"o">>
    /\ Top(RootId).ph = "check"

-----------------------------------------------------------------------------
(***************************************************************************)
(* Properties of the serialization.                                        *)
(***************************************************************************)

\* The snapshot of a subtree: per node its name, kind, size, usage, flags and
\* path from the root, and its children's snapshots in order.
RECURSIVE TreeSnapshot(_, _)
TreeSnapshot(ns, n) ==
    [name |-> ns[n].name, dir |-> ns[n].dir, size |-> ns[n].size, usage |-> ns[n].usage,
     flag |-> ns[n].flag, path |-> buildPath(ns, n),
     ch |-> [k \in 1..Len(ns[n].ch) |-> TreeSnapshot(ns, ns[n].ch[k])]]

Reimported == ImportJSON(exportToWriter(nodes))

\* C4: the tree a successful scan returns survives the round trip: decoding
\* its encoding succeeds and yields the same structure and child order and,
\* node by node, the same name, size, usage, flags and parent chain.
ExportImportRoundTrip ==
    scRet = "ok" =>
        /\ Reimported.ok
        /\ TreeSnapshot(Reimported.ns, RootId) = TreeSnapshot(nodes, RootId)

\* The same for the trees all of whose names are valid UTF-8.
RoundTripOfValidNames ==
    (scRet = "ok" /\ \A n \in DOMAIN nodes : jsonString(nodes[n].name) = nodes[n].name) =>
        /\ Reimported.ok
        /\ TreeSnapshot(Reimported.ns, RootId) = TreeSnapshot(nodes, RootId)

-----------------------------------------------------------------------------
(***************************************************************************)
(* Properties of Scan's return.                                            *)
(***************************************************************************)

\* C9: whenever Scan has returned, by whatever path, the progress reporter
\* goroutine has ended, so that nothing is sent on the caller's progress
\* channel any more and closing it cannot make a send panic.
ReporterEndedBeforeReturn ==
    /\ scPc = "returned" => pub # "running"
    /\ ~panicked

\* C10: a Scan called with ctx already cancelled returns Canceled and a root
\* without children, has opened no directory, and has left no goroutine it
\* started running.
PreCancelledScanReturnsEmpty ==
    (scOpts.pre /\ scPc = "returned") =>
        /\ scRet = "canceled"
        /\ RootId \in DOMAIN nodes
        /\ nodes[RootId].ch = <<>>
        /\ opens = {}
        /\ cnt.dirs = 0
        /\ WalkersFinished
        /\ pub # "running"

-----------------------------------------------------------------------------
(***************************************************************************)
(* Properties of cancellation and of the progress records.                 *)
(***************************************************************************)

\* The sums of the aggregation invariant, over the children a directory holds.
SumsAggregated(ns, d) ==
    /\ ns[d].size = FieldSum(ns, ChildrenOf(ns, d), "size")
    /\ ns[d].usage = FieldSum(ns, ChildrenOf(ns, d), "usage")
    /\ ns[d].items = Cardinality(ChildrenOf(ns, d))
                     + FieldSum(ns, ChildrenOf(ns, d) \cap Dirs(ns), "items")

\* C11: the partial tree Scan returns together with the cancellation is
\* aggregated: every directory in it carries the sums over the children it
\* holds.
CancelledScanIsAggregated ==
    scRet = "canceled" => \A d \in Dirs(nodes) : SumsAggregated(nodes, d)

DoneEmitted == \E k \in 1..Len(emitted) : emitted[k].done

\* C12: a record with Done = true is on the channel only if the bottom-up
\* aggregation of the whole tree has completed, also when cancellation arrived
\* while the aggregation was running.
DoneOnlyAfterAggregation ==
    DoneEmitted => \A d \in Dirs(nodes) : SumsAggregated(nodes, d)

DoneRecords == {k \in 1..Len(emitted) : emitted[k].done}

\* C13: when a scan with a progress channel has returned success, exactly one
\* record with Done = true has been emitted, after the walker's goroutines
\* drained, and it is the last record emitted.
OneFinalDoneRecord ==
    scRet = "ok" =>
        /\ Cardinality(DoneRecords) = 1
        /\ emitted[Len(emitted)].done
        /\ WalkersFinished

RecordLeq(a, b) ==
    /\ a.files <= b.files
    /\ a.dirs <= b.dirs
    /\ a.bytes <= b.bytes
    /\ a.errs <= b.errs

\* C14: the records emitted in one scan never decrease in any counter, and
\* the final record's errors are at least those of every other record.
ProgressCountersMonotone ==
    /\ \A j, k \in 1..Len(emitted) : j < k => RecordLeq(emitted[j], emitted[k])
    /\ \A k \in DoneRecords : \A j \in 1..Len(emitted) : emitted[j].errs <= emitted[k].errs

\* A tick record from before the root's listing failed, then the final record
\* with one more file and one more error.
FinalRecordAfterReadError ==
    /\ Len(emitted) = 2
    /\ ~emitted[1].done
    /\ emitted[2].done
    /\ emitted[1].errs < emitted[2].errs
    /\ emitted[1].files < emitted[2].files

-----------------------------------------------------------------------------
(***************************************************************************)
(* Properties of failures: of the whole scan and of single entries.        *)
(***************************************************************************)

\* The path given to Scan is missing, is not a directory, or is a directory
\* whose os.Open or ReadDir fails.
RootUnreadable ==
    \/ RootStat(scOpts.scn) # "dir"
    \/ ~TheFS[ScanRoot].open
    \/ TheFS[ScanRoot].readFail

\* C15: a scan whose root is missing, is not a directory, or is a directory
\* that cannot be opened or read does not return success.
UnreadableRootIsAnError ==
    (scPc = "returned" /\ RootUnreadable) => scRet # "ok"

\* An entry the walker passes over without a node: filtered by name, gone
\* before entry.Info(), or a special file.
Filtered(e) ==
    \/ e.name \in excludeSet
    \/ ~scOpts.hidden /\ e.name \in DotNames
    \/ e.infoErr
    \/ e.kind = "special"
    \/ e.kind = "symlink" /\ scOpts.follow /\ e.tgt.kind = "special"

\* The entries whose entry.Info() failed, in the directories opened.
InfoFailures ==
    UNION {{<<o, i>> : i \in {j \in 1..Len(TheFS[o[1]].entries) :
                                /\ TheFS[o[1]].entries[j].infoErr
                                /\ TheFS[o[1]].entries[j].name \notin excludeSet
                                /\ scOpts.hidden
                                   \/ TheFS[o[1]].entries[j].name \notin DotNames}} :
           o \in opens}

ErrorNodes == {n \in DOMAIN nodes : FlagError \in nodes[n].flag}

\* C16: a failure confined to one entry does not abort the walk. A scan that
\* is not cancelled returns success; in its tree every entry of every opened
\* directory that is not filtered has its node, a directory that cannot be
\* opened is a node flagged ERROR without children, a directory whose read
\* fails is flagged ERROR, a symlink that cannot be resolved under
\* follow-symlinks is a leaf flagged SYMLINK and ERROR of size and usage 0,
\* and the errors counter holds one per failure.
EntryFailureNeverAborts ==
    /\ (scPc = "returned" /\ ~ctx) => scRet = "ok"
    /\ scRet = "ok" =>
        /\ \A o \in opens : \A i \in 1..Len(TheFS[o[1]].entries) :
              LET e == TheFS[o[1]].entries[i]
                  c == Append(o[2], i)
              IN  ~Filtered(e) =>
                    /\ c \in DOMAIN nodes
                    /\ nodes[c].name = e.name
                    /\ (e.kind = "dir" /\ ~TheFS[e.dir].open) =>
                          /\ nodes[c].dir
                          /\ FlagError \in nodes[c].flag
                          /\ nodes[c].ch = <<>>
                    /\ (e.kind = "symlink" /\ scOpts.follow /\ e.tgt.kind = "broken") =>
                          /\ ~nodes[c].dir
                          /\ nodes[c].flag = {FlagSymlink, FlagError}
                          /\ nodes[c].size = 0
                          /\ nodes[c].usage = 0
                          /\ nodes[c].ch = <<>>
        /\ \A o \in opens : TheFS[o[1]].readFail => FlagError \in nodes[o[2]].flag
        /\ cnt.errs = Cardinality(ErrorNodes) + Cardinality(InfoFailures)

\* A successful scan under follow-symlinks that met a directory it could not
\* open, a broken symlink, a vanished entry and a listing that failed, and
\* holds the file g listed beside the vanished entry.
FourFailuresOneSuccess ==
    /\ scRet = "ok"
    /\ scOpts.scn = "symdir"
    /\ scOpts.follow
    /\ cnt.errs = 4
    /\ Cardinality(ErrorNodes) = 3
    /\ Cardinality(InfoFailures) = 1
    /\ <<6>> \in ErrorNodes
    /\ nodes[<<1, 2>>].name = <<"g">>

-----------------------------------------------------------------------------
(***************************************************************************)
(* Properties of filtering and of symlinks into the scan root.             *)
(***************************************************************************)

\* The name is in exclude-names, or hidden while show-hidden is off.
NameFiltered(name) == name \in excludeSet \/ (~scOpts.hidden /\ name \in DotNames)

\* A directory path with a filtered name below the scan root.
BeneathFiltered(p) == \E k \in (Len(ScanRoot) + 1)..Len(p) : NameFiltered(<<p[k]>>)

\* C17: no node below the root has a name in exclude-names or, with
\* show-hidden off, a name beginning with '.'; a special file has no node,
\* also as the target of a followed symlink; no directory beneath an
\* excluded or hidden one is opened, and the counters hold the nodes of the
\* tree and nothing else.
FilteredNeverAppears ==
    /\ \A n \in DOMAIN nodes \ {RootId} : ~NameFiltered(nodes[n].name)
    /\ \A o \in opens : \A i \in 1..Len(TheFS[o[1]].entries) :
          LET e == TheFS[o[1]].entries[i]
          IN  (e.kind = "special"
               \/ (e.kind = "symlink" /\ scOpts.follow /\ e.tgt.kind = "special"))
                  => Append(o[2], i) \notin DOMAIN nodes
    /\ \A o \in opens : ~BeneathFiltered(o[1])
    /\ cnt.files = Cardinality(Files(nodes))
    /\ cnt.bytes = FieldSum(nodes, Files(nodes), "size")
    /\ cnt.dirs = Cardinality(opens)
    /\ scRet = "ok" => nodes[RootId].size = FieldSum(nodes, Files(nodes), "size")

\* The tree of filtered entries walked with show-hidden off and
\* follow-symlinks on: of its fourteen entries six have a node, and the one
\* file among them makes the root's size.
FilteredTreeWalked ==
    /\ scRet = "ok"
    /\ scOpts.scn = "filter"
    /\ ~scOpts.hidden
    /\ scOpts.follow
    /\ DOMAIN nodes = {RootId, <<1>>, <<2>>, <<2, 1>>, <<6>>, <<6, 1>>, <<6, 3>>}
    /\ cnt.files = 1
    /\ nodes[RootId].size = 2

\* The entries of opened directories that are followed symlinks to a
\* directory at or below the scan root, as <<node, target path>>.
InsideLinks ==
    UNION {{<<Append(o[2], i), TheFS[o[1]].entries[i].tgt.dir>> :
               i \in {j \in 1..Len(TheFS[o[1]].entries) :
                         /\ scOpts.follow
                         /\ ~Filtered(TheFS[o[1]].entries[j])
                         /\ TheFS[o[1]].entries[j].kind = "symlink"
                         /\ TheFS[o[1]].entries[j].tgt.kind = "dir"
                         /\ IsPrefix(ScanRoot, TheFS[o[1]].entries[j].tgt.dir)}} :
           o \in opens}

\* The goroutines' scanDir frames.
FrameNodes ==
    UNION {{tasks[t].stack[k].node : k \in 1..Len(tasks[t].stack)} : t \in DOMAIN tasks}

-----------------------------------------------------------------------------
(***************************************************************************)
(* The result of a walk and the order its goroutines ran in.               *)
(***************************************************************************)

\* A tree without the order of siblings: every node with its name, kind,
\* sizes, flags and the set of its children.
TreeShape(ns) ==
    [n \in DOMAIN ns |->
        [name |-> ns[n].name, dir |-> ns[n].dir, size |-> ns[n].size,
         usage |-> ns[n].usage, flag |-> ns[n].flag, ch |-> ChildrenOf(ns, n)]]

\* C19: the tree of a successful scan does not depend on the order the
\* walker's goroutines ran in: up to the order of siblings it is the tree of
\* the walk that starts no goroutine, node for node with the same sizes,
\* usages and flags.
ScanResultIndependentOfSchedule ==
    scRet = "ok" => TreeShape(nodes) = TreeShape(ScanInline(scOpts))

-----------------------------------------------------------------------------
(***************************************************************************)
(* Properties of the import's depth limit.                                 *)
(***************************************************************************)

\* The document's innermost directory holds nothing the decoder refuses.
WellFormed == impLeaf # "dotdot"

\* C20: ImportJSON refuses an otherwise well-formed document of more than
\* maxImportDepth directory levels with the depth-limit error, and accepts a
\* well-formed document of at most maxImportDepth directory levels.
DepthLimitByLevels ==
    impPc = "done" =>
        /\ (impLevels > maxImportDepth /\ WellFormed) => impRet = "depth"
        /\ (impLevels <= maxImportDepth /\ WellFormed) => impRet = "ok"

\* C20, amended: no parseDirFromDecoder call goes on at a depth above
\* maxImportDepth, the root's call being at depth 0. ImportJSON refuses a
\* document of more than maxImportDepth + 1 directory levels, the root's
\* included, with the depth-limit error, and accepts a well-formed document
\* of at most maxImportDepth + 1 levels, with a DirNode for every level.
DepthLimitBelowRoot ==
    /\ impPc \in {"child", "close", "finish"} => impDepth <= maxImportDepth
    /\ impBuilt <= maxImportDepth + 1
    /\ impPc = "done" =>
        /\ impLevels > maxImportDepth + 1 => impRet = "depth"
        /\ (impLevels <= maxImportDepth + 1 /\ WellFormed) =>
              impRet = "ok" /\ impBuilt = impLevels
        /\ impRet = "depth" => impLevels > maxImportDepth + 1

\* A document of maxImportDepth + 2 directory levels refused at the call for
\* its innermost directory, after a DirNode for every level above it.
DeepestDirectoryRefused ==
    /\ impPc = "done"
    /\ impRet = "depth"
    /\ impLevels = maxImportDepth + 2
    /\ impDepth = maxImportDepth + 1
    /\ impBuilt = maxImportDepth + 1

-----------------------------------------------------------------------------
(***************************************************************************)
(* Properties of ImportJSON on whole files.                                *)
(***************************************************************************)

Returned == decOut # NotReturned

\* The root directory array of the file, when its top level holds one.
HasRootArr == decFile.doc.t = "arr" /\ Len(decFile.doc.v) >= 4

RootArr == decFile.doc.v[4]

IsScalar(x) == x.t \notin {"arr", "obj"}

\* The directory array up to, and without, its element at index n decodes.
DecodesBefore(arr, n) == ImportJSON(TopDoc("four", Arr(SubSeq(arr.v, 1, n)))).ok

\* The indices of the scalars of a directory array that nothing before
\* them in the array stops the decoder at.
FirstScalars(arr) ==
    {n \in 1..(Len(arr.v) - 1) : IsScalar(arr.v[n + 1]) /\ DecodesBefore(arr, n)}

\* The directory array holds a scalar at index n, after its entry object.
ScalarAt(arr, n) == n >= 1 /\ n + 1 <= Len(arr.v) /\ IsScalar(arr.v[n + 1])

\* C21: when the first element of a directory array the decoder cannot take
\* is a value at index N that is neither an object nor an array, ImportJSON
\* returns no tree and the error "unexpected child element at index N" with
\* that N; this for the root's array and for a subdirectory's. The error is
\* reported for no other element.
UnexpectedChildReported ==
    (Returned /\ HasRootArr) =>
        /\ \A n \in FirstScalars(RootArr) :
              decOut = Failure("unexpected child element", n)
        /\ \A k \in 1..(Len(RootArr.v) - 1) :
              (RootArr.v[k + 1].t = "arr" /\ DecodesBefore(RootArr, k)) =>
                  \A n \in FirstScalars(RootArr.v[k + 1]) :
                      decOut = Failure("unexpected child element", n)
        /\ decOut.err = "unexpected child element" =>
              \/ ScalarAt(RootArr, decOut.index)
              \/ \E k \in 2..Len(RootArr.v) :
                    /\ RootArr.v[k].t = "arr"
                    /\ \/ ScalarAt(RootArr.v[k], decOut.index)
                       \/ \E j \in 2..Len(RootArr.v[k].v) :
                             /\ RootArr.v[k].v[j].t = "arr"
                             /\ ScalarAt(RootArr.v[k].v[j], decOut.index)

\* A file refused for the number at index 2 of its root array, after a file
\* entry at index 1.
ScalarAtIndexTwoRefused ==
    /\ Returned
    /\ HasRootArr
    /\ Len(RootArr.v) = 3
    /\ RootArr.v[2].t = "obj"
    /\ RootArr.v[3] = Num(123)
    /\ decOut = Failure("unexpected child element", 2)

\* What ImportJSON makes of the root directory array alone.
RootAlone == ImportJSON(TopDoc("four", RootArr))

\* C22: ImportJSON returns a tree only for a top-level array of at least
\* four elements followed by nothing but whitespace; a shorter array, a
\* top-level value that is no array and trailing data make it fail without a
\* tree, trailing data with the error "trailing data", and elements after
\* the fourth change nothing in the tree returned.
TopLevelShapeEnforced ==
    Returned =>
        /\ decOut.ok => (HasRootArr /\ decFile.trailing \in {"none", "space"})
        /\ ~decOut.ok => decOut.ns = << >>
        /\ (HasRootArr /\ RootAlone.ok) =>
              IF decFile.trailing \in {"none", "space"}
              THEN decOut.ok /\ decOut.ns = RootAlone.ns
              ELSE decOut = Failure("trailing data", 0)

\* A file of six top-level elements followed by whitespace, decoded to the
\* tree of its fourth element.
ExtraElementsIgnored ==
    /\ Returned
    /\ decOut.ok
    /\ Len(decFile.doc.v) = 6
    /\ decFile.trailing = "space"
    /\ DOMAIN decOut.ns = {RootId, <<1>>}

\* C23: in a tree ImportJSON returns, the name of every node but the root is
\* one component (it holds no separator) that is not empty, "." or "..",
\* and the path of every node lies strictly below the root's path.
ImportedNamesStayInside ==
    (Returned /\ decOut.ok) =>
        \A n \in DOMAIN decOut.ns \ {RootId} :
            /\ Len(decOut.ns[n].name) = 1
            /\ decOut.ns[n].name[1] \notin {"", ".", ".."}
            /\ IsStrictPrefix(buildPath(decOut.ns, RootId), buildPath(decOut.ns, n))

\* A decoded tree three directories deep under the root named /tmp/../x,
\* whose innermost file has the path /x/s/t/g.
NestedImportBelowRoot ==
    /\ Returned
    /\ decOut.ok
    /\ <<1, 1, 1>> \in DOMAIN decOut.ns
    /\ buildPath(decOut.ns, RootId) = <<"x">>
    /\ buildPath(decOut.ns, <<1, 1, 1>>) = <<"x", "s", "t", "g">>

\* C24: in a tree ImportJSON returns, every directory's size, usage and
\* item count are the sums over its decoded children, whatever asize and
\* dsize the document wrote on the directories' entries.
ImportedTreeIsAggregated ==
    (Returned /\ decOut.ok) => \A d \in Dirs(decOut.ns) : Aggregated(decOut.ns, d)

\* A document that writes asize 99 and dsize 77 on its root and on the
\* subdirectory s, decoded to a root of size 4 and usage 8 over three items
\* and a subdirectory of size 3.
WrittenSizesRecomputed ==
    /\ Returned
    /\ decOut.ok
    /\ "asize" \in DOMAIN RootArr.v[1].v
    /\ RootArr.v[1].v["asize"] = 99
    /\ Len(RootArr.v) = 3
    /\ RootArr.v[3].t = "arr"
    /\ "dsize" \in DOMAIN RootArr.v[3].v[1].v
    /\ decOut.ns[RootId].size = 4
    /\ decOut.ns[RootId].usage = 8
    /\ decOut.ns[RootId].items = 3
    /\ decOut.ns[<<2>>].size = 3

-----------------------------------------------------------------------------
(***************************************************************************)
(* The delete batch and the tree.                                          *)
(***************************************************************************)

\* The children and the aggregates of every directory of the tree.
DirState(ns) ==
    [d \in Dirs(ns) |-> <<ns[d].ch, ns[d].size, ns[d].usage, ns[d].items>>]

\* C25: for each item of a delete batch the tree loses the item's node from
\* the directory shown if and only if Delete returned success for it; when
\* Delete failed, the children, size, usage and item count of every
\* directory are what they were.
TreeChangesIffDeleted ==
    rmLast.called =>
        LET before == rmLast.before
            was == before[rmLast.dir].ch
        IN  /\ rmLast.ok <=> uiTree[rmLast.dir].ch # was
            /\ rmLast.ok =>
                  \E i \in 1..Len(was) :
                      /\ before[was[i]].name = rmLast.name
                      /\ uiTree[rmLast.dir].ch = RemoveAt(was, i)
            /\ ~rmLast.ok => DirState(uiTree) = DirState(before)

\* A batch of two ended: one item was deleted and left the tree, the other
\* could not be deleted.
BatchHalfDeleted ==
    /\ uiState = "done"
    /\ Len(deleteDone.deleted) = 1
    /\ deleteDone.errors = 1
    /\ Len(uiTree[currentDir].ch) = Len(ScannedTree[currentDir].ch) - 1

-----------------------------------------------------------------------------
(***************************************************************************)
(* The remote scan.                                                        *)
(***************************************************************************)

\* The directory entry node n was made from, and the path of its directory.
OpenedAs(p) == CHOOSE d \in {o[1] : o \in {x \in opens : x[2] = p}} : TRUE

EntryOf(n) == TheFS[OpenedAs(SubSeq(n, 1, Len(n) - 1))].entries[n[Len(n)]]

\* The canonical resolved path of the file behind node n, and its size.
CanonicalOf(n) ==
    IF EntryOf(n).kind = "symlink" THEN EntryOf(n).tgt.dir
    ELSE OpenedAs(SubSeq(n, 1, Len(n) - 1)) \o EntryOf(n).name

RealSizeOf(n) == IF EntryOf(n).kind = "symlink" THEN EntryOf(n).tgt.size ELSE EntryOf(n).size

RemoteFiles == {n \in DOMAIN nodes : n # RootId /\ ~nodes[n].dir}

Sightings(n) == {o \in RemoteFiles : CanonicalOf(o) = CanonicalOf(n)}

\* The block size of the scenario.
ScenarioBlock == IF scOpts.scn = "sftpvfs" THEN 512 ELSE defaultRemoteBlockSize

\* Node c carries the size of its file and that size rounded up to blocks.
CarriesRealSize(c) ==
    /\ FlagHardlink \notin nodes[c].flag
    /\ nodes[c].size = RealSizeOf(c)
    /\ nodes[c].usage >= nodes[c].size
    /\ nodes[c].usage - nodes[c].size < ScenarioBlock
    /\ nodes[c].usage % ScenarioBlock = 0

\* C26: when a remote scan that follows symlinks has returned, under every
\* interleaving of its goroutines, of the nodes made for one canonical file
\* path reached more than once exactly one carries the real size and usage;
\* every other one is flagged HARDLINK with size and usage zero.
AliasedFileCountedOnce ==
    (scOpts.scn \in {"sftp", "sftpvfs"} /\ scOpts.follow /\ scPc = "returned") =>
        \A n \in RemoteFiles :
            Cardinality(Sightings(n)) > 1 =>
                \E c \in Sightings(n) :
                    /\ CarriesRealSize(c)
                    /\ \A o \in Sightings(n) \ {c} :
                          /\ FlagHardlink \in nodes[o].flag
                          /\ nodes[o].size = 0
                          /\ nodes[o].usage = 0

\* A scan returned in which the goroutine of /r/a reached /r/target first,
\* through the symlink l2: l2 carries the size, target and alias do not.
SubdirectoryAliasCarries ==
    /\ scOpts.scn = "sftp"
    /\ scOpts.follow
    /\ scRet = "ok"
    /\ nodes[<<1, 1>>].size = 10
    /\ nodes[<<1, 1>>].usage = defaultRemoteBlockSize
    /\ FlagHardlink \in nodes[<<2>>].flag
    /\ FlagHardlink \in nodes[<<3>>].flag
    /\ nodes[RootId].size = 10 + 1 + 5000

-----------------------------------------------------------------------------
(***************************************************************************)
(* RemoveChild.                                                            *)
(***************************************************************************)

\* The indices in ch of the children named name.
NamedAt(ns, ch, name) == {i \in 1..Len(ch) : ns[ch[i]].name = name}

\* The directory and the directories above it, by Parent.
RECURSIVE SelfAndAncestors(_, _)
SelfAndAncestors(ns, d) ==
    IF d = NilNode THEN {} ELSE {d} \cup SelfAndAncestors(ns, ns[d].parent)

\* C27: RemoveChild(dir, name) detaches exactly the first child of dir with
\* that name, leaves the other children in their order and returns true,
\* and dir and every ancestor of it then carry the sums over their
\* children; when no child has the name it returns false and the tree is
\* as it was.
RemoveChildFirstMatch ==
    (uiState = "tree" /\ rmLast.called) =>
        LET before == rmLast.before
            was == before[rmLast.dir].ch
            at == NamedAt(before, was, rmLast.name)
        IN  IF at = {}
            THEN ~rmLast.found /\ uiTree = before
            ELSE /\ rmLast.found
                 /\ \E i \in at :
                       /\ \A j \in at : i <= j
                       /\ uiTree[rmLast.dir].ch = RemoveAt(was, i)
                 /\ \A x \in DOMAIN before \ {rmLast.dir} : uiTree[x].ch = before[x].ch
                 /\ \A a \in SelfAndAncestors(uiTree, rmLast.dir) : SumsAggregated(uiTree, a)

\* The first of the two h of /r/d/k was removed: the second h is what k
\* holds, and k, d and the root carry the new sums.
FirstOfTwoRemoved ==
    /\ uiState = "tree"
    /\ rmLast.called
    /\ rmLast.dir = <<2, 2>>
    /\ rmLast.name = <<"h">>
    /\ rmLast.before = RepeatedNamesTree
    /\ uiTree[<<2, 2>>].ch = << <<2, 2, 2>> >>
    /\ uiTree[<<2, 2>>].size = 7
    /\ uiTree[<<2>>].size = 10
    /\ uiTree[RootId].size = RepeatedNamesTree[RootId].size - 1

-----------------------------------------------------------------------------
(***************************************************************************)
(* AddChild from several goroutines.                                       *)
(***************************************************************************)

\* The children goroutine t has appended: those whose AddChild has written.
Appended(t) ==
    LET a == addTasks[t]
        n == Len(a.all) - Len(a.todo) + (IF a.pc = "written" THEN 1 ELSE 0)
    IN  SubSeq(a.all, 1, n)

\* The children of the directory that goroutine t made, in their order.
ChildrenFrom(t) ==
    LET Mine(c) == c[1] = t IN SelectSeq(uiTree[RootId].ch, Mine)

\* C28: while goroutines append to one directory, every node appended so
\* far is among its children exactly once, and the nodes of one goroutine
\* stand in the order that goroutine appended them.
AppendsKeptInOrder ==
    uiState = "adding" => \A t \in DOMAIN addTasks : ChildrenFrom(t) = Appended(t)

\* Two goroutines are done and their children alternate in the directory.
InterleavedAppends ==
    /\ uiState = "adding"
    /\ DOMAIN addTasks = {1, 2}
    /\ \A t \in DOMAIN addTasks : addTasks[t].todo = <<>>
    /\ uiTree[RootId].ch = << <<1, 1>>, <<2, 1>>, <<1, 2>>, <<2, 2>> >>

-----------------------------------------------------------------------------
(***************************************************************************)
(* Parent links and paths.                                                 *)
(***************************************************************************)

\* How often node n stands among the children of directory d.
TimesIn(ns, d, n) == Cardinality({i \in 1..Len(ns[d].ch) : ns[d].ch[i] = n})

\* The tree ns is linked: the root has no parent; every other node has a
\* parent, a directory holding it exactly once, and no other directory
\* holds it; its path is its parent's path joined with its name.
Linked(ns) ==
    /\ RootId \in DOMAIN ns => ns[RootId].parent = NilNode
    /\ \A n \in DOMAIN ns \ {RootId} :
          LET p == ns[n].parent IN
          /\ p \in DOMAIN ns
          /\ ns[p].dir
          /\ TimesIn(ns, p, n) = 1
          /\ \A d \in DOMAIN ns \ {p} : TimesIn(ns, d, n) = 0
          /\ buildPath(ns, n) = CleanFrom(<<>>, buildPath(ns, p) \o ns[n].name)

-----------------------------------------------------------------------------
(***************************************************************************)
(* The remote usage estimate.                                              *)
(***************************************************************************)

\* The block size the estimate is to use: the fragment or block size the
\* remote reports, the default when it reports none or none that is positive.
ReportedBlock ==
    LET stat == estArgs.stat IN
    IF stat.vfs /\ stat.frsize > 0 THEN stat.frsize
    ELSE IF stat.vfs /\ stat.bsize > 0 THEN stat.bsize
    ELSE defaultRemoteBlockSize

\* C30: for every size of the signed integer range the estimate is never
\* negative; it is 0 for a size of at most 0 and, for a positive size, the
\* size rounded up to a whole number of blocks: the least multiple of the
\* block size that is at least the size.
UsageEstimateRoundsUp ==
    estRet.called =>
        /\ estRet.usage >= 0
        /\ estArgs.size <= 0 => estRet.usage = 0
        /\ estArgs.size > 0 =>
              /\ estRet.usage >= estArgs.size
              /\ estRet.usage - estArgs.size < ReportedBlock
              /\ estRet.usage % ReportedBlock = 0


-----------------------------------------------------------------------------
(***************************************************************************)
(* Saturating sums (C31).                                                  *)
(***************************************************************************)

\* The exact sum of integers as a pair [q, r], which stands for
\* q * (maxInt64 + 1) + r with 0 <= r <= maxInt64.
ExactAdd(acc, v) ==
    IF v >= 0
    THEN IF acc.r > maxInt64 - v
         THEN [q |-> acc.q + 1, r |-> acc.r - (maxInt64 - v) - 1]
         ELSE [q |-> acc.q, r |-> acc.r + v]
    ELSE IF acc.r + v < 0
         THEN [q |-> acc.q - 1, r |-> ((acc.r + v) + maxInt64) + 1]
         ELSE [q |-> acc.q, r |-> acc.r + v]

RECURSIVE ExactSum(_, _)
ExactSum(vals, acc) ==
    IF vals = <<>> THEN acc ELSE ExactSum(Tail(vals), ExactAdd(acc, Head(vals)))

\* The exact sum brought into the integer range.
Clamped(x) ==
    IF x.q >= 1 THEN maxInt64
    ELSE IF x.q = 0 THEN x.r
    ELSE IF x.q = -1 THEN (x.r - maxInt64) - 1
    ELSE minInt64

Exceeds(x) == x.q >= 1 \/ x.q <= -2

ChildValues(ns, d, field) ==
    [k \in 1..Len(ns[d].ch) |->
        LET c == ns[ns[d].ch[k]] IN
        IF field = "size" THEN c.size ELSE IF field = "usage" THEN c.usage ELSE c.items]

Stored(ns, d, field) ==
    IF field = "size" THEN ns[d].size ELSE IF field = "usage" THEN ns[d].usage
    ELSE ns[d].items

\* The exact sum behind a field of d: the children's values and, for the
\* item count, one for each child.
ExactField(ns, d, field) ==
    ExactSum(ChildValues(ns, d, field),
             [q |-> 0, r |-> IF field = "items" THEN Len(ns[d].ch) ELSE 0])

SumFields == {"size", "usage", "items"}

\* C31: after aggregation, a size, usage or item count of a directory whose
\* children's values sum exactly to more (less) than the integer range holds
\* is the largest (smallest) integer, and it is never negative when no
\* child's value is.
SumsClampedToRange ==
    estRet.called /\ "ns" \in DOMAIN estRet =>
        \A d \in Dirs(estRet.ns), field \in SumFields :
            /\ Exceeds(ExactField(estRet.ns, d, field))
                   => Stored(estRet.ns, d, field) = Clamped(ExactField(estRet.ns, d, field))
            /\ (\A k \in 1..Len(estRet.ns[d].ch) :
                    ChildValues(estRet.ns, d, field)[k] >= 0)
                   => Stored(estRet.ns, d, field) >= 0

\* The same for the directories none of whose children has a negative value.
SumsOfNonNegativeClamped ==
    estRet.called /\ "ns" \in DOMAIN estRet =>
        \A d \in Dirs(estRet.ns), field \in SumFields :
            (\A k \in 1..Len(estRet.ns[d].ch) : ChildValues(estRet.ns, d, field)[k] >= 0)
                => /\ Stored(estRet.ns, d, field)
                        = Clamped(ExactField(estRet.ns, d, field))
                   /\ Stored(estRet.ns, d, field) >= 0

\* A sum of non-negative values above the range was stored.
SumAboveRangeStored ==
    /\ estRet.called /\ "ns" \in DOMAIN estRet
    /\ \A k \in 1..Len(estRet.ns[<<1>>].ch) : estRet.ns[estRet.ns[<<1>>].ch[k]].usage >= 0
    /\ Exceeds(ExactField(estRet.ns, <<1>>, "usage"))
    /\ estRet.ns[RootId].usage = maxInt64


-----------------------------------------------------------------------------
(***************************************************************************)
(* The walk and the aggregation (C32).                                     *)
(***************************************************************************)

\* root.UpdateSizeRecursiveContext has been called.
AggregationStarted == scPc \in {"agg", "final", "pubwait", "check2"} \/ scRet = "ok"

\* No scanDir call is in progress and no walker goroutine is left.
NoLiveWalker ==
    /\ \A t \in DOMAIN tasks : tasks[t].stack = <<>>
    /\ DOMAIN tasks \subseteq {RootId}
    /\ wg = 0

\* What the walker writes of the tree: the nodes, their children and flags.
WalkerWrites(ns) == [n \in DOMAIN ns |-> [ch |-> ns[n].ch, flag |-> ns[n].flag]]

\* C32: in every execution of a local or remote scan, when the bottom-up size
\* computation starts every walker task has finished, and from then on no
\* child is appended to and no flag is written on any node.
AggregationAfterWalkers ==
    /\ [](AggregationStarted => NoLiveWalker)
    /\ [][AggregationStarted => WalkerWrites(nodes') = WalkerWrites(nodes)]_vars

\* The aggregation is under way after a walk on which goroutines were started.
AggregatingAfterParallelWalk ==
    /\ scPc = "agg"
    /\ scOpts.conc > 1
    /\ Cardinality(opens) > 2
    /\ aggTodo # <<>>
    /\ aggTodo # PostOrder(nodes, RootId)


-----------------------------------------------------------------------------
(***************************************************************************)
(* One scan per canonical directory (C33).                                 *)
(***************************************************************************)

\* The scanDir calls in progress, as <<goroutine, position in its stack>>.
AllFrames(ts) == UNION {{<<t, k>> : k \in 1..Len(ts[t].stack)} : t \in DOMAIN ts}

FrameAt(ts, x) == ts[x[1]].stack[x[2]]

FrameDirs(ts) == {FrameAt(ts, x).dir : x \in AllFrames(ts)}

OpenedPaths == {o[1] : o \in opens}

\* No path is the directory of two scanDir calls or was opened for two nodes
\* or twice, and a call that has not opened its directory yet is the first
\* to come to it.
OneCallPerPath ==
    /\ \A x, y \in AllFrames(tasks) :
          FrameAt(tasks, x).dir = FrameAt(tasks, y).dir => x = y
    /\ \A x \in AllFrames(tasks) :
          LET f == FrameAt(tasks, x) IN
          /\ f.dir \in visitedDirs
          /\ f.ph \in {"enter", "open"} => f.dir \notin OpenedPaths
          /\ f.ph \in {"check", "entry"} => <<f.dir, f.node>> \in opens
    /\ \A o1, o2 \in opens : o1[1] = o2[1] => o1 = o2
    /\ OpenedPaths \subseteq visitedDirs
    /\ cnt.dirs = Cardinality(opens)

\* A step starts scanDir calls only for paths it claims, none of which was
\* claimed before, and no claim is ever given up.
ClaimsBeforeScanning ==
    /\ visitedDirs \subseteq visitedDirs'
    /\ \A p \in FrameDirs(tasks') \ FrameDirs(tasks) :
          p \notin visitedDirs /\ p \in visitedDirs'
    /\ Cardinality(AllFrames(tasks')) - Cardinality(AllFrames(tasks))
          <= Cardinality(visitedDirs' \ visitedDirs)

\* C33: within one walk, under every interleaving of the walker's tasks, each
\* canonical directory path is claimed by at most one scanDir call and is
\* opened and enumerated at most once, be it the root, a plain subdirectory
\* or the target of followed symlinks.
DirectoryScannedAtMostOnce == []OneCallPerPath /\ [][ClaimsBeforeScanning]_vars

\* /o, outside the root, has been opened once while both symlinks that lead
\* to it have their nodes and goroutines run side by side.
TwoSymlinksOneScan ==
    /\ scOpts.scn = "symdir"
    /\ scOpts.follow
    /\ <<"o">> \in OpenedPaths
    /\ {<<3>>, <<1, 3>>} \subseteq DOMAIN nodes
    /\ Cardinality(DOMAIN tasks) > 1


-----------------------------------------------------------------------------
(***************************************************************************)
(* Directory nodes of one canonical directory (C34).                       *)
(***************************************************************************)

DirNodes == {n \in DOMAIN nodes : nodes[n].dir}

\* The canonical directory a directory node stands for: the scan root, the
\* directory itself, or the directory a followed symlink resolves to.
StandsFor(n) ==
    IF n = RootId THEN ScanRoot
    ELSE IF EntryOf(n).kind = "dir" THEN EntryOf(n).dir
    ELSE EntryOf(n).tgt.dir

\* scanDir was called for the node: it is the root, its directory was opened
\* for it, or the failure to open it was flagged on it.
Owned(n) ==
    \/ n = RootId
    \/ <<StandsFor(n), n>> \in opens
    \/ FlagError \in nodes[n].flag

Owners(p) == {n \in DirNodes : StandsFor(n) = p /\ Owned(n)}

\* C34: in the tree of a successful scan each canonical directory has at most
\* one directory node that owns a subtree, and every other node that stands
\* for it has no children and carries the SYMLINK flag.
OneOwnerOthersSymlinkLeaves ==
    scRet = "ok" =>
        \A n \in DirNodes :
            /\ Cardinality(Owners(StandsFor(n))) <= 1
            /\ ~Owned(n) => nodes[n].ch = <<>> /\ FlagSymlink \in nodes[n].flag

\* What holds of the other nodes: none has children, and the ones made for a
\* symlink carry the flag.
OneOwnerOthersLeaves ==
    scRet = "ok" =>
        \A n \in DirNodes :
            /\ Cardinality(Owners(StandsFor(n))) <= 1
            /\ ~Owned(n) =>
                  /\ nodes[n].ch = <<>>
                  /\ EntryOf(n).kind = "symlink" <=> FlagSymlink \in nodes[n].flag

-----------------------------------------------------------------------------
(***************************************************************************)
(* The recursive removal beside a concurrent actor (C35).                  *)
(***************************************************************************)

\* The entries the removal may unlink: the target under its parent and the
\* entries of the directories of the target's original subtree.
InOriginalTarget(r) == (r[1] = "P" /\ r[2] = "t") \/ r[1] \in RmSubtree

-----------------------------------------------------------------------------
(***************************************************************************)
(* A removal that fails part-way (C36).                                    *)
(***************************************************************************)

RmNames(dir) == [k \in 1..Len(dir) |-> dir[k].name]

\* The names of dir from name on, in ReadDir order.
NamesFrom(dir, name) ==
    LET ns == RmNames(dir)
        k == CHOOSE j \in 1..Len(ns) : ns[j] = name
    IN  SubSeq(ns, k, Len(ns))

\* The errno the system answers for entry e when it refuses its removal.
RefusalOf(e) ==
    CASE e.kind = "link" -> {"ELOOP", "ENOTDIR"}
      [] e.mode \in {"EACCES", "EPERM"} -> {e.mode}
      [] e.mode \in {"noopen", "normdir"} -> {"EACCES"}
      [] e.mode = "noread" -> {"EIO"}
      [] OTHER -> {}

\* The removal has returned an error: in each directory on the way from the
\* target's parent to the failing entry the entries before the one on the
\* way are gone and that one and every later one are in place, and the
\* error is the one the system gave for the failing entry.
FailureLeavesRest ==
    rmRet.st = "err" =>
        /\ \A k \in 1..Len(rmRet.at) :
              LET d == rmRet.at[k][1] IN
              RmNames(rmFs[d]) = NamesFrom(RemovalTree[d], rmRet.at[k][2])
        /\ LET last == rmRet.at[Len(rmRet.at)] IN
           rmRet.errno \in RefusalOf(Dirent(rmFs, last[1], last[2]))

-----------------------------------------------------------------------------
(***************************************************************************)
(* The walk after cancellation (C37).                                      *)
(***************************************************************************)

\* The scanDir calls of task t that are at phase ph.
FramesAt(ts, t, ph) == {k \in 1..Len(ts[t].stack) : ts[t].stack[k].ph = ph}

\* The tasks holding an entry that passed the check of the loop, and the
\* tasks that passed the check at the top of scanDir and are about to open.
EntryInHand(ts) == {t \in DOMAIN ts : FramesAt(ts, t, "entry") # {}}
AboutToOpen(ts) == {t \in DOMAIN ts : FramesAt(ts, t, "open") # {}}

\* A task is past at most one check at a time.
OneCheckPassed ==
    \A t \in DOMAIN tasks :
        Cardinality(FramesAt(tasks, t, "entry") \cup FramesAt(tasks, t, "open")) <= 1

\* A step of the walk taken while ctx is cancelled: no task passes a check, a
\* step that appends appends one node and uses up the entry its task had in
\* hand, and a step that opens a directory uses up the open its task was
\* about to do.
StepAfterCancel ==
    ctx /\ scPc = "walk" =>
        /\ EntryInHand(tasks') \subseteq EntryInHand(tasks)
        /\ AboutToOpen(tasks') \subseteq AboutToOpen(tasks)
        /\ DOMAIN nodes' # DOMAIN nodes =>
              /\ Cardinality(DOMAIN nodes' \ DOMAIN nodes) = 1
              /\ EntryInHand(tasks') # EntryInHand(tasks)
        /\ opens' # opens => AboutToOpen(tasks') # AboutToOpen(tasks)

\* C37: once ctx is cancelled, a task appends at most the node of the one
\* entry that had passed the loop's check, opens at most the one directory
\* that had passed the check at the top of scanDir, passes no further check,
\* and every task returns; Scan returns the tree built so far together with
\* the cancellation error.
CancelStopsTheWalk ==
    /\ []OneCheckPassed
    /\ [][StepAfterCancel]_vars
    /\ [](scPc = "returned" /\ ctx => scRet = "canceled" /\ RootId \in DOMAIN nodes)
    /\ (ctx ~> (scPc = "returned" /\ DOMAIN tasks = {RootId}))

\* Scan was cancelled during the walk and returned a partial tree: a
\* directory was opened and not every entry of it has its node.
CancelledMidWalk ==
    /\ scRet = "canceled"
    /\ ~scOpts.pre
    /\ \E o \in opens : Len(nodes[o[2]].ch) < Len(TheFS[o[1]].entries)
    /\ \E n \in DOMAIN nodes : n # RootId


-----------------------------------------------------------------------------
(***************************************************************************)
(* The two containment tests (C38).                                        *)
(***************************************************************************)

\* The elements a path names once every ".." has taken effect.
Named(es) == CleanElems(<<>>, es)

\* The target is the root or lies beneath it on an element boundary.
AtOrBeneath(root, target) ==
    /\ Len(Named(root)) <= Len(Named(target))
    /\ \A k \in 1..Len(Named(root)) : Named(target)[k] = Named(root)[k]

\* C38: isWithin and isWithinRemote both answer true exactly when the target
\* is the root or lies beneath it on an element boundary: /rm is outside /r,
\* as are the parent of the root and a path that leaves it through "..",
\* while /r/..f, whose name only begins with two dots, is inside /r.
WithinIffAtOrBeneath ==
    estRet.called /\ "local" \in DOMAIN estRet =>
        /\ estRet.local = AtOrBeneath(estArgs.root, estArgs.target)
        /\ estRet.remote = AtOrBeneath(estArgs.root, estArgs.target)

\* A sibling that shares a string prefix with the root was found outside.
PrefixSiblingOutside ==
    /\ estRet.called /\ "local" \in DOMAIN estRet
    /\ estArgs.root = <<<<"r">>>>
    /\ estArgs.target = <<<<"r", "m">>>>
    /\ ~estRet.local /\ ~estRet.remote

\* An entry of the root whose name begins with two dots was found inside.
DotDotNameInside ==
    /\ estRet.called /\ "local" \in DOMAIN estRet
    /\ estArgs.root = <<<<"r">>>>
    /\ estArgs.target = <<<<"r">>, <<".", ".", "f">>>>
    /\ estRet.local /\ estRet.remote


-----------------------------------------------------------------------------
(***************************************************************************)
(* The semaphore and the goroutines spawnScan started (C39).               *)
(***************************************************************************)

\* The goroutines started by spawnScan, and those of them whose scanDir is
\* running or has just returned and that have not yet received from sem.
Spawned(ts) == DOMAIN ts \ {RootId}
SlotHolders(ts) == {t \in Spawned(ts) : ts[t].st = "run"}

SlotsMatchTasks ==
    /\ sem = Cardinality(SlotHolders(tasks))
    /\ sem <= scOpts.conc
    /\ wg = Cardinality(Spawned(tasks))
    /\ wg = 0 => sem = 0

\* A goroutine gives its slot back once, when its scanDir has returned, and
\* ends only after that.
ReleasesOnce ==
    \A t \in Spawned(tasks) :
        /\ t \notin DOMAIN tasks' => tasks[t].st = "released" /\ sem' = sem
        /\ t \in DOMAIN tasks' /\ tasks[t].st = "released" =>
              tasks'[t].st = "released"
        /\ t \in DOMAIN tasks' /\ tasks[t].st = "run" /\ tasks'[t].st = "released" =>
              tasks[t].stack = <<>> /\ sem' = sem - 1

=============================================================================
